---- MODULE Spec2Model ----
(***************************************************************************)
(* A model of claw-daw (sdiaoune/claw-daw): the headless session over a    *)
(* project, timecode parsing, the note pipeline (flatten, swing, drum-role *)
(* expansion, humanize, chance gating, MIDI emission, region slicing),     *)
(* project JSON persistence and the quality workflow.                      *)
(*                                                                         *)
(* Units.  Python floats are modelled as scaled integers: chance, accent   *)
(* and drum-layer velocity multipliers in hundredths (1.0 = 100), meter    *)
(* readings and gate thresholds in hundredths of their unit.  Text is a    *)
(* sequence of one-character strings.                                      *)
(***************************************************************************)
EXTENDS Integers, Sequences, FiniteSets, TLC

VARIABLES
    project,      \* HeadlessContext.project: [open, tracks]
    lastResult,   \* outcome of the last headless command: "none" | "ok" | "error"
    tcPpq,        \* project.ppq seen by parse_timecode_ticks
    tcIn,         \* the value handed to parse_timecode_ticks
    tcOut,        \* what parse_timecode_ticks did with it
    wfIn,         \* what run_quality_workflow meets: options, mix, meters, stems
    wfOut,        \* how run_quality_workflow ended, with its report
    ntIn,         \* the project handed to an export, with the random streams
    ntOut,        \* what the export produced: flattened notes, kept notes, events
    jsIn,         \* the project handed to save_project
    jsOut,        \* the file save_project wrote and what load_project made of it
    mixIn,        \* the project and MixSpec handed to mix_project_wav
    mixOut,       \* the ffmpeg filter graph mix_project_wav compiled
    fpIn,         \* the two projects handed to project_similarity
    fpOut,        \* the similarities project_similarity returned, in thousandths
    genIn,        \* a generator run: its limits and what each attempt meets
    genOut,       \* how generate_from_genre_pack or run_stylepack ended
    scriptIn,     \* the script handed to run_lines, the files it may include, strict or not
    scriptOut,    \* what run_lines did: lines met, warnings, the exception raised
    migIn,        \* the project file (a dict) handed to migration or load_project
    migOut,       \* the dict or project each step left, with its schema version
    renIn,        \* an export command: the project's tracks (their busses), whether project.mix is set, the command
    renStack,     \* the Python call stack of the render, innermost frame last
    renOut,       \* how the export ended
    edProject,    \* HeadlessContext.project of an editing session: tracks, variations, mix
    edSelection,  \* HeadlessRunner._selection: (track index, pattern name) -> note indices
    edResult      \* the last command of the editing session and how it ended

sessionVars == <<project, lastResult>>
tcVars == <<tcPpq, tcIn, tcOut>>
wfVars == <<wfIn, wfOut>>
ntVars == <<ntIn, ntOut>>
jsVars == <<jsIn, jsOut>>
mixVars == <<mixIn, mixOut>>
fpVars == <<fpIn, fpOut>>
genVars == <<genIn, genOut>>
scriptVars == <<scriptIn, scriptOut>>
migVars == <<migIn, migOut>>
renVars == <<renIn, renStack, renOut>>
edVars == <<edProject, edSelection, edResult>>
vars == <<project, lastResult, tcPpq, tcIn, tcOut, wfIn, wfOut, ntIn, ntOut, jsIn, jsOut, mixIn, mixOut, fpIn, fpOut, genIn, genOut, scriptIn, scriptOut, migIn, migOut, renIn, renStack, renOut, edProject, edSelection, edResult>>
notSessionVars == <<tcVars, wfVars, ntVars, jsVars, mixVars, fpVars, genVars, scriptVars, migVars, renVars, edVars>>
notTcVars == <<sessionVars, wfVars, ntVars, jsVars, mixVars, fpVars, genVars, scriptVars, migVars, renVars, edVars>>
notWfVars == <<sessionVars, tcVars, ntVars, jsVars, mixVars, fpVars, genVars, scriptVars, migVars, renVars, edVars>>
notNtVars == <<sessionVars, tcVars, wfVars, jsVars, mixVars, fpVars, genVars, scriptVars, migVars, renVars, edVars>>
notJsVars == <<sessionVars, tcVars, wfVars, ntVars, mixVars, fpVars, genVars, scriptVars, migVars, renVars, edVars>>
notMixVars == <<sessionVars, tcVars, wfVars, ntVars, jsVars, fpVars, genVars, scriptVars, migVars, renVars, edVars>>
notFpVars == <<sessionVars, tcVars, wfVars, ntVars, jsVars, mixVars, genVars, scriptVars, migVars, renVars, edVars>>
notGenVars == <<sessionVars, tcVars, wfVars, ntVars, jsVars, mixVars, fpVars, scriptVars, migVars, renVars, edVars>>
notScriptVars == <<sessionVars, tcVars, wfVars, ntVars, jsVars, mixVars, fpVars, genVars, migVars, renVars, edVars>>
notMigVars == <<sessionVars, tcVars, wfVars, ntVars, jsVars, mixVars, fpVars, genVars, scriptVars, renVars, edVars>>
notRenVars == <<sessionVars, tcVars, wfVars, ntVars, jsVars, mixVars, fpVars, genVars, scriptVars, migVars, edVars>>
notEdVars == <<sessionVars, tcVars, wfVars, ntVars, jsVars, mixVars, fpVars, genVars, scriptVars, migVars, renVars>>

(***************************************************************************)
(* Generic helpers                                                         *)
(***************************************************************************)
Max(a, b) == IF a >= b THEN a ELSE b
Min(a, b) == IF a <= b THEN a ELSE b
Abs(a) == IF a < 0 THEN -a ELSE a

\* util/validate.py clamp
clamp(v, lo, hi) == Max(lo, Min(hi, v))

Range(s) == {s[i] : i \in 1..Len(s)}

SeqsUpTo(S, n) == UNION {[1..k -> S] : k \in 0..n}

SessionIdle ==
    /\ project = [open |-> FALSE, tracks |-> <<>>]
    /\ lastResult = "none"

WfIdle ==
    /\ wfIn = [soundfont |-> FALSE]
    /\ wfOut = [status |-> "none"]

NtIdle ==
    /\ ntIn = [tracks |-> <<>>]
    /\ ntOut = [kind |-> "none"]

JsIdle ==
    /\ jsIn = [tracks |-> <<>>]
    /\ jsOut = [status |-> "none"]

MixIdle ==
    /\ mixIn = [n |-> 0]
    /\ mixOut = [status |-> "none"]

FpIdle ==
    /\ fpIn = [a |-> 0]
    /\ fpOut = [status |-> "none"]

GenIdle ==
    /\ genIn = [max_attempts |-> 0]
    /\ genOut = [status |-> "none"]

ScriptIdle ==
    /\ scriptIn = [lines |-> <<>>]
    /\ scriptOut = [status |-> "none"]

MigIdle ==
    /\ migIn = [tracks |-> <<>>]
    /\ migOut = [stage |-> "none"]

RenIdle ==
    /\ renIn = [tracks |-> <<>>]
    /\ renStack = <<>>
    /\ renOut = [status |-> "none"]

EdIdle ==
    /\ edProject = [open |-> FALSE]
    /\ edSelection = {}
    /\ edResult = [cmd |-> "none", ok |-> TRUE]

(***************************************************************************)
(* Timecode (util/timecode.py)                                             *)
(***************************************************************************)
MaxTcLen == 5
MaxTcInt == 3

Digits == {"0", "1"}
TcAlphabet == Digits \cup {"-", ":", "x", " "}

DigitVal(c) == IF c = "1" THEN 1 ELSE 0

RECURSIVE DigitsVal(_)
DigitsVal(s) ==
    IF Len(s) = 0 THEN 0
    ELSE 10 * DigitsVal(SubSeq(s, 1, Len(s) - 1)) + DigitVal(s[Len(s)])

\* str.isdigit(): non-empty and every character a digit
IsDigit(s) == Len(s) > 0 /\ \A i \in 1..Len(s) : s[i] \in Digits

RECURSIVE LStrip(_)
LStrip(s) == IF Len(s) > 0 /\ s[1] = " " THEN LStrip(Tail(s)) ELSE s

RECURSIVE RStrip(_)
RStrip(s) ==
    IF Len(s) > 0 /\ s[Len(s)] = " " THEN RStrip(SubSeq(s, 1, Len(s) - 1)) ELSE s

\* str.strip()
Strip(s) == RStrip(LStrip(s))

\* str.split(":"): the parts between the colons, empty parts kept
RECURSIVE SplitColon(_)
SplitColon(s) ==
    IF \A i \in 1..Len(s) : s[i] # ":" THEN <<s>>
    ELSE LET k == CHOOSE i \in 1..Len(s) : s[i] = ":" /\ \A j \in 1..(i - 1) : s[j] # ":"
         IN <<SubSeq(s, 1, k - 1)>> \o SplitColon(SubSeq(s, k + 1, Len(s)))

\* int(str): surrounding whitespace ignored, an optional sign, then digits
PyInt(s) ==
    LET t == Strip(s)
    IN  IF IsDigit(t) THEN [ok |-> TRUE, val |-> DigitsVal(t)]
        ELSE IF Len(t) > 1 /\ t[1] = "-" /\ IsDigit(Tail(t))
        THEN [ok |-> TRUE, val |-> -DigitsVal(Tail(t))]
        ELSE [ok |-> FALSE, val |-> 0]

TcError == [status |-> "error", ticks |-> 0]
TcOk(n) == [status |-> "ok", ticks |-> n]

parse_timecode_ticks(ppq, value) ==
    IF value.kind = "int" THEN TcOk(value.int)
    ELSE
    LET s == Strip(value.chars)
    IN  IF Len(s) = 0 THEN TcError
        ELSE IF IsDigit(s) \/ (s[1] = "-" /\ IsDigit(Tail(s))) THEN TcOk(PyInt(s).val)
        ELSE
        LET parts == SplitColon(s)
        IN  IF Len(parts) \notin {2, 3} THEN TcError
            ELSE
            LET bar == PyInt(parts[1])
                beat == PyInt(parts[2])
                sub == IF Len(parts) = 3 THEN PyInt(parts[3]) ELSE [ok |-> TRUE, val |-> 0]
            IN  IF ~bar.ok \/ ~beat.ok \/ ~sub.ok THEN TcError
                ELSE IF bar.val < 0 \/ beat.val < 0 \/ sub.val < 0 THEN TcError
                ELSE TcOk(bar.val * (ppq * 4) + beat.val * ppq + sub.val)

TcInputs ==
    {[kind |-> "int", int |-> n, chars |-> <<>>] : n \in (-MaxTcInt)..MaxTcInt}
    \cup {[kind |-> "str", int |-> 0, chars |-> s] : s \in SeqsUpTo(TcAlphabet, MaxTcLen)}

TcIdle ==
    /\ tcPpq = 24
    /\ tcIn = [kind |-> "int", int |-> 0, chars |-> <<>>]
    /\ tcOut = [status |-> "none", ticks |-> 0]

InitTimecode ==
    /\ tcPpq \in {24, 480}
    /\ tcIn \in TcInputs
    /\ tcOut = [status |-> "none", ticks |-> 0]
    /\ SessionIdle
    /\ WfIdle
    /\ NtIdle
    /\ JsIdle
    /\ MixIdle
    /\ FpIdle
    /\ GenIdle
    /\ ScriptIdle
    /\ MigIdle
    /\ RenIdle
    /\ EdIdle

ParseTimecode ==
    /\ tcOut.status = "none"
    /\ tcOut' = parse_timecode_ticks(tcPpq, tcIn)
    /\ UNCHANGED <<tcPpq, tcIn, notTcVars>>

NextTimecode == ParseTimecode

SpecTimecode == InitTimecode /\ [][NextTimecode]_vars

\* The accepted forms of the specification: a bare integer, bar:beat or
\* bar:beat:tick, every component an integer literal.
TcWellFormed(value) ==
    \/ value.kind = "int"
    \/ /\ value.kind = "str"
       /\ LET parts == SplitColon(Strip(value.chars))
          IN  /\ Len(parts) \in {1, 2, 3}
              /\ \A i \in 1..Len(parts) : PyInt(parts[i]).ok

TcNegative(value) ==
    \/ value.kind = "int" /\ value.int < 0
    \/ /\ value.kind = "str"
       /\ LET parts == SplitColon(Strip(value.chars))
          IN  \E i \in 1..Len(parts) : PyInt(parts[i]).ok /\ PyInt(parts[i]).val < 0

\* C10: parse_timecode rejects every negative value and every malformed
\* string: an input that is negative (integer, bare-integer string, or a
\* bar:beat[:tick] component) or in none of the accepted forms ends in an
\* error, never in a tick value.
C10_RejectsNegativeAndMalformed ==
    (tcOut.status # "none" /\ (TcNegative(tcIn) \/ ~TcWellFormed(tcIn)))
        => tcOut.status = "error"

(***************************************************************************)
(* Headless session (cli/headless.py) over the project's tracks            *)
(***************************************************************************)
MAX_TRACKS == 16
MaxSessionTracks == 3
MaxFileTracks == 3

\* channels a project file may name; 16 is out of Track's range
FileChannels == {0, 1, 15, 16}

\* Track.__post_init__: the channel check
TrackInitOk(t) == 0 <= t.channel /\ t.channel <= 15

\* Project.next_free_channel: lowest channel no track uses (16 = none left)
next_free_channel(tracks) ==
    LET used == {tracks[i].channel : i \in 1..Len(tracks)}
    IN  IF \E ch \in 0..15 : ch \notin used
        THEN CHOOSE ch \in 0..15 : ch \notin used /\ \A c \in 0..(ch - 1) : c \in used
        ELSE 16

\* validate_and_migrate_project, the part that touches the tracks
validate_and_migrate_project(tracks) ==
    LET cut == IF Len(tracks) > MAX_TRACKS THEN SubSeq(tracks, 1, MAX_TRACKS) ELSE tracks
    IN  [i \in 1..Len(cut) |-> [cut[i] EXCEPT !.channel = clamp(cut[i].channel, 0, 15)]]

\* load_project: Project.from_dict builds every Track (raising on a bad
\* channel), then validation
load_project(fileTracks) ==
    IF \E i \in 1..Len(fileTracks) : ~TrackInitOk(fileTracks[i])
    THEN [ok |-> FALSE, tracks |-> <<>>]
    ELSE [ok |-> TRUE, tracks |-> validate_and_migrate_project(fileTracks)]

FileTrackLists ==
    {[i \in 1..Len(cs) |-> [channel |-> cs[i]]] : cs \in SeqsUpTo(FileChannels, MaxFileTracks)}

Init ==
    /\ project = [open |-> FALSE, tracks |-> <<>>]
    /\ lastResult = "none"
    /\ TcIdle
    /\ WfIdle
    /\ NtIdle
    /\ JsIdle
    /\ MixIdle
    /\ FpIdle
    /\ GenIdle
    /\ ScriptIdle
    /\ MigIdle
    /\ RenIdle
    /\ EdIdle

NewProject ==
    /\ project' = [open |-> TRUE, tracks |-> <<>>]
    /\ lastResult' = "ok"
    /\ UNCHANGED notSessionVars

OpenProject ==
    \E f \in FileTrackLists :
        LET r == load_project(f)
        IN  /\ project' = IF r.ok THEN [open |-> TRUE, tracks |-> r.tracks] ELSE project
            /\ lastResult' = IF r.ok THEN "ok" ELSE "error"
            /\ UNCHANGED notSessionVars

AddTrack ==
    /\ Len(project.tracks) < MaxSessionTracks
    /\ IF ~project.open \/ Len(project.tracks) >= MAX_TRACKS
          \/ next_free_channel(project.tracks) = 16
       THEN /\ lastResult' = "error"
            /\ UNCHANGED project
       ELSE /\ project' = [project EXCEPT !.tracks =
                             Append(@, [channel |-> next_free_channel(project.tracks)])]
            /\ lastResult' = "ok"
    /\ UNCHANGED notSessionVars

DeleteTrack ==
    \E idx \in 0..MaxSessionTracks :
        /\ IF ~project.open \/ idx < 0 \/ idx >= Len(project.tracks)
           THEN /\ lastResult' = "error"
                /\ UNCHANGED project
           ELSE /\ project' = [project EXCEPT !.tracks =
                                 [i \in 1..(Len(@) - 1) |-> IF i <= idx THEN @[i] ELSE @[i + 1]]]
                /\ lastResult' = "ok"
        /\ UNCHANGED notSessionVars

ValidateProject ==
    /\ IF ~project.open
       THEN /\ lastResult' = "error"
            /\ UNCHANGED project
       ELSE /\ project' = [project EXCEPT !.tracks = validate_and_migrate_project(@)]
            /\ lastResult' = "ok"
    /\ UNCHANGED notSessionVars

Next ==
    \/ NewProject
    \/ OpenProject
    \/ AddTrack
    \/ DeleteTrack
    \/ ValidateProject

Spec == Init /\ [][Next]_vars

\* C6: with a project open, every track's channel is in 0..15 and no two
\* tracks share a channel, after a load and after any add_track/delete_track.
C6_ChannelsValidAndUnique ==
    project.open =>
        /\ \A i \in 1..Len(project.tracks) : project.tracks[i].channel \in 0..15
        /\ \A i, j \in 1..Len(project.tracks) :
              i # j => project.tracks[i].channel # project.tracks[j].channel

(***************************************************************************)
(* Quality workflow (quality_workflow.py)                                  *)
(***************************************************************************)
\* gate_master_meter defaults, in hundredths
DEFAULT_LUFS_MIN == -1550
DEFAULT_LUFS_MAX == -1250
DEFAULT_TRUE_PEAK_MAX == -100
DEFAULT_STEREO_CORR_MIN == -20
DEFAULT_STEREO_BALANCE_MAX == 150
DEFAULT_DC_OFFSET_MAX == 2
DEFAULT_CREST_MIN == 600

\* dict.get(key, default)
Get(d, key, default) == IF key \in DOMAIN d THEN d[key] ELSE default
Has(d, key) == key \in DOMAIN d

Check(name, ok) == [name |-> name, ok |-> ok]

AllOk(checks) == \A i \in 1..Len(checks) : checks[i].ok

\* gate_master_meter(meter, gates.master of the preset, crest_min = 6.0):
\* one check per metric, a missing metric fails its check
gate_master_meter(data, master, crest_min) ==
    LET lufs_min == Get(master, "lufs_min", DEFAULT_LUFS_MIN)
        lufs_max == Get(master, "lufs_max", DEFAULT_LUFS_MAX)
        true_peak_max == Get(master, "true_peak_max", DEFAULT_TRUE_PEAK_MAX)
        stereo_corr_min == Get(master, "stereo_corr_min", DEFAULT_STEREO_CORR_MIN)
        stereo_balance_max == Get(master, "stereo_balance_max", DEFAULT_STEREO_BALANCE_MAX)
        dc_offset_max == Get(master, "dc_offset_max", DEFAULT_DC_OFFSET_MAX)
        c1 == Check("integrated_lufs",
                    Has(data, "integrated_lufs")
                    /\ lufs_min <= data["integrated_lufs"]
                    /\ data["integrated_lufs"] <= lufs_max)
        c2 == Check("true_peak_dbtp",
                    Has(data, "true_peak_dbtp") /\ data["true_peak_dbtp"] <= true_peak_max)
        c3 == Check("crest_factor_db",
                    Has(data, "crest_factor_db") /\ data["crest_factor_db"] >= crest_min)
        c4 == Check("stereo_correlation",
                    Has(data, "stereo_correlation")
                    /\ data["stereo_correlation"] >= stereo_corr_min)
        c5 == Check("stereo_balance_db",
                    Has(data, "stereo_balance_db")
                    /\ Abs(data["stereo_balance_db"]) <= stereo_balance_max)
        c6 == Check("dc_offset",
                    Has(data, "dc_offset") /\ Abs(data["dc_offset"]) <= dc_offset_max)
        tilt == IF Has(master, "spectral_tilt_min") \/ Has(master, "spectral_tilt_max")
                THEN <<Check("spectral_tilt_db",
                             /\ Has(data, "spectral_tilt_db")
                             /\ ~(Has(master, "spectral_tilt_min")
                                  /\ data["spectral_tilt_db"] < master["spectral_tilt_min"])
                             /\ ~(Has(master, "spectral_tilt_max")
                                  /\ data["spectral_tilt_db"] > master["spectral_tilt_max"]))>>
                ELSE <<>>
        checks == <<c1, c2, c3, c4, c5, c6>> \o tilt
    IN  [ok |-> AllOk(checks), checks |-> checks]

\* validate_mix_spec over what it reads off the project and the mix: the
\* kick->bass sidechain, the reverb/delay sends of drum and bass tracks, the
\* highpass of the other tracks, the mono_below_hz of the bass bus and of the
\* master, the music bus compressor
validate_mix_spec(mix) ==
    LET checks == <<Check("sidechain kick->bass", mix.has_sc),
                    Check("no reverb/delay on drums and bass", mix.sends_ok),
                    Check("highpass on other tracks", mix.highpass_ok),
                    Check("bass bus mono_below_hz", mix.bass_mono_ok),
                    Check("master mono_below_hz", mix.master_mono_ok),
                    Check("music bus comp", mix.music_comp)>>
    IN  [ok |-> AllOk(checks), checks |-> checks]

\* gate_stems: one PASS/FAIL line per stem or bus file; no file at all fails
gate_stems(files) ==
    IF Len(files) = 0 THEN [ok |-> FALSE, checks |-> <<Check("no stems/busses found", FALSE)>>]
    ELSE LET checks == [i \in 1..Len(files) |-> Check("file", files[i])]
         IN  [ok |-> AllOk(checks), checks |-> checks]

\* the commands HeadlessRunner.run_command dispatches on
HeadlessCommands ==
    {"new_project", "template_house", "template_lofi", "template_hiphop", "render_demo",
     "open_project", "save_project", "export_project", "add_track", "delete_track",
     "set_program", "set_volume", "set_pan", "set_reverb", "set_chorus", "set_bus", "eq",
     "sidechain", "transient", "apply_palette", "set_sampler", "set_sampler_preset",
     "set_kit", "set_drum_kit", "list_drum_kits", "set_808", "set_glide", "set_humanize",
     "set_swing", "set_loop", "clear_loop", "set_render_region", "clear_render_region",
     "insert_note", "new_pattern", "rename_pattern", "delete_pattern", "duplicate_pattern",
     "pattern_transpose", "pattern_shift", "pattern_stretch", "pattern_reverse",
     "pattern_vel", "add_note_pat", "place_pattern", "move_clip", "delete_clip",
     "copy_bars", "clear_clips", "add_section", "add_variation", "gen_drums",
     "gen_drum_macros", "gen_bass_follow", "quantize_track", "select_notes",
     "apply_selected", "export_midi", "export_wav", "export_preview_mp3", "export_mp3",
     "export_m4a", "export_stems", "export_busses", "meter_audio", "spectrogram_audio",
     "analyze_audio", "export_spectrogram", "analyze_refs", "validate_project",
     "diff_projects", "dump_state"}

\* _run_headless_lines: a strict runner; the first line that raises ends the
\* run.  A line raises when run_command knows no such command, or when the
\* renderer or the file system fails under it (toolsOk = FALSE).
RECURSIVE run_headless_lines(_, _)
run_headless_lines(cmds, toolsOk) ==
    IF Len(cmds) = 0 THEN [ok |-> TRUE, error |-> "none"]
    ELSE IF Head(cmds) \notin HeadlessCommands THEN [ok |-> FALSE, error |-> "Unknown command"]
    ELSE IF ~toolsOk THEN [ok |-> FALSE, error |-> "command failed"]
    ELSE run_headless_lines(Tail(cmds), toolsOk)

WfStates ==
    <<"mix_prepare", "section_gain", "mix_spec_validate", "preview_render", "preview_gate",
      "export_package", "mix_gate", "mix_gate_stems">>

Step(name, ok, checks) == [step |-> name, ok |-> ok, checks |-> checks]

\* report["steps"].append(...), with the step counted as executed
Push(acc, st) == [steps |-> Append(acc.steps, st), executed |-> Append(acc.executed, st.step)]

\* a step that ran without writing a report entry
Ran(acc, name) == [acc EXCEPT !.executed = Append(@, name)]

\* raise QualityWorkflowError({**report, "error": error})
WfRaise(acc, error, failed) ==
    [status |-> "raised", ok |-> FALSE, steps |-> acc.steps, executed |-> acc.executed,
     error |-> error, failed |-> failed]

WfReturn(acc) ==
    [status |-> "returned", ok |-> TRUE, steps |-> acc.steps, executed |-> acc.executed,
     error |-> "none", failed |-> "none"]

WfMixGateStems(in, acc) ==
    LET g == gate_stems(in.stems)
        a == Push(acc, Step("mix_gate_stems", g.ok, g.checks))
    IN  IF ~g.ok THEN WfRaise(a, "mix_gate_stems failed", "mix_gate_stems") ELSE WfReturn(a)

WfMixGate(in, acc) ==
    LET g == gate_master_meter(in.masterMeter, in.master, DEFAULT_CREST_MIN)
        a == Push(acc, Step("mix_gate", g.ok, g.checks))
    IN  IF ~g.ok THEN WfRaise(a, "mix_gate failed", "mix_gate") ELSE WfMixGateStems(in, a)

WfExportPackage(in, acc) ==
    LET r == run_headless_lines(<<"open_project", "export_package">>, in.toolsOk)
    IN  IF ~r.ok THEN WfRaise(Ran(acc, "export_package"), r.error, "export_package")
        ELSE WfMixGate(in, Push(acc, Step("export_package", TRUE, <<>>)))

WfPreviewGate(in, acc) ==
    LET g == gate_master_meter(in.previewMeter, in.master, DEFAULT_CREST_MIN)
        a == Push(acc, Step("preview_gate", g.ok, g.checks))
    IN  IF ~g.ok THEN WfRaise(a, "preview_gate failed", "preview_gate")
        ELSE WfExportPackage(in, a)

WfPreviewRender(in, acc) ==
    LET r == run_headless_lines(<<"open_project", "export_wav", "meter_audio">>, in.toolsOk)
    IN  IF ~r.ok THEN WfRaise(Ran(acc, "preview_render"), r.error, "preview_render")
        ELSE WfPreviewGate(in, Ran(acc, "preview_render"))

WfMixSpecValidate(in, acc) ==
    LET v == validate_mix_spec(in.mix)
        a == Push(acc, Step("mix_spec_validate", v.ok, v.checks))
    IN  IF ~v.ok THEN WfRaise(a, "mix_spec_validate failed", "mix_spec_validate")
        ELSE WfPreviewRender(in, a)

WfSectionGain(in, acc) ==
    IF in.section_gain
    THEN WfMixSpecValidate(in, Push(acc, Step("section_gain", TRUE, <<>>)))
    ELSE WfMixSpecValidate(in, acc)

\* run_quality_workflow: _pick_soundfont outside the try, then the steps
run_quality_workflow(in) ==
    LET acc0 == [steps |-> <<>>, executed |-> <<>>]
    IN  IF ~in.soundfont
        THEN [status |-> "raised_plain", ok |-> FALSE, steps |-> <<>>, executed |-> <<>>,
              error |-> "no soundfont available", failed |-> "none"]
        ELSE IF ~in.presetKnown
        THEN WfRaise(Ran(acc0, "mix_prepare"), "unknown preset", "mix_prepare")
        ELSE WfSectionGain(in, Push(acc0, Step("mix_prepare", TRUE, <<>>)))

\* Meters (hundredths): a clean master, and one reading off per metric
GoodMeter ==
    [integrated_lufs |-> -1400, true_peak_dbtp |-> -150, crest_factor_db |-> 900,
     stereo_correlation |-> 50, stereo_balance_db |-> 20, dc_offset |-> 0,
     spectral_tilt_db |-> -600]

Without(f, key) == [k \in DOMAIN f \ {key} |-> f[k]]

Meters ==
    {GoodMeter,
     [GoodMeter EXCEPT !.integrated_lufs = -1000],
     [GoodMeter EXCEPT !.true_peak_dbtp = 0],
     [GoodMeter EXCEPT !.crest_factor_db = 700],
     [GoodMeter EXCEPT !.crest_factor_db = 500],
     [GoodMeter EXCEPT !.stereo_correlation = -60],
     [GoodMeter EXCEPT !.stereo_balance_db = -300],
     [GoodMeter EXCEPT !.dc_offset = 5],
     [GoodMeter EXCEPT !.spectral_tilt_db = -2000],
     Without(GoodMeter, "integrated_lufs")}

\* gates.master of two presets: one that states every threshold, one empty
MasterGates ==
    {[lufs_min |-> -1500, lufs_max |-> -1300, true_peak_max |-> -100, crest_min |-> 800,
      stereo_corr_min |-> 0, stereo_balance_max |-> 100, dc_offset_max |-> 1,
      spectral_tilt_min |-> -1200, spectral_tilt_max |-> -300],
     [gates_master_empty |-> 0]}

WfInputs ==
    [soundfont : BOOLEAN, presetKnown : BOOLEAN, section_gain : BOOLEAN, toolsOk : BOOLEAN,
     mix : [has_sc : BOOLEAN, sends_ok : BOOLEAN, highpass_ok : BOOLEAN,
            bass_mono_ok : BOOLEAN, master_mono_ok : BOOLEAN, music_comp : BOOLEAN],
     master : MasterGates, previewMeter : Meters,
     masterMeter : {GoodMeter, [GoodMeter EXCEPT !.true_peak_dbtp = 0]},
     stems : {<<>>, <<TRUE>>, <<TRUE, FALSE>>}]

InitWorkflow ==
    /\ wfIn \in WfInputs
    /\ wfOut = [status |-> "none"]
    /\ SessionIdle
    /\ TcIdle
    /\ NtIdle
    /\ JsIdle
    /\ MixIdle
    /\ FpIdle
    /\ GenIdle
    /\ ScriptIdle
    /\ MigIdle
    /\ RenIdle
    /\ EdIdle

RunQualityWorkflow ==
    /\ wfOut.status = "none"
    /\ wfOut' = run_quality_workflow(wfIn)
    /\ UNCHANGED <<wfIn, notWfVars>>

NextWorkflow == RunQualityWorkflow

SpecWorkflow == InitWorkflow /\ [][NextWorkflow]_vars

StepNames(steps) == [i \in 1..Len(steps) |-> steps[i].step]

\* s lists names of WfStates in the order of WfStates, none twice
InStateOrder(s) ==
    \A i, j \in 1..Len(s) :
        i < j => \E a, b \in 1..Len(WfStates) : a < b /\ WfStates[a] = s[i] /\ WfStates[b] = s[j]

\* The thresholds of the specification: every key of gates.master with the
\* preset's value (the documented default where the preset is silent).
MeetsPresetThresholds(data, master) ==
    /\ Has(data, "integrated_lufs")
    /\ Get(master, "lufs_min", DEFAULT_LUFS_MIN) <= data["integrated_lufs"]
    /\ data["integrated_lufs"] <= Get(master, "lufs_max", DEFAULT_LUFS_MAX)
    /\ Has(data, "true_peak_dbtp")
    /\ data["true_peak_dbtp"] <= Get(master, "true_peak_max", DEFAULT_TRUE_PEAK_MAX)
    /\ Has(data, "crest_factor_db")
    /\ data["crest_factor_db"] >= Get(master, "crest_min", DEFAULT_CREST_MIN)
    /\ Has(data, "stereo_correlation")
    /\ data["stereo_correlation"] >= Get(master, "stereo_corr_min", DEFAULT_STEREO_CORR_MIN)
    /\ Has(data, "stereo_balance_db")
    /\ Abs(data["stereo_balance_db"]) <= Get(master, "stereo_balance_max", DEFAULT_STEREO_BALANCE_MAX)
    /\ Has(data, "dc_offset")
    /\ Abs(data["dc_offset"]) <= Get(master, "dc_offset_max", DEFAULT_DC_OFFSET_MAX)
    /\ (Has(master, "spectral_tilt_min") =>
            Has(data, "spectral_tilt_db") /\ data["spectral_tilt_db"] >= master["spectral_tilt_min"])
    /\ (Has(master, "spectral_tilt_max") =>
            Has(data, "spectral_tilt_db") /\ data["spectral_tilt_db"] <= master["spectral_tilt_max"])

GateSteps == {"mix_spec_validate", "preview_gate", "export_package", "mix_gate", "mix_gate_stems"}

\* C2: fail-fast with a full report: when one of mix_spec_validate,
\* preview_gate, export_package, mix_gate, mix_gate_stems fails, it is the
\* last step executed, and the structured error's report lists the steps in
\* state order and ends with the failing step, marked not ok.
C2_FailFastWithFullReport ==
    (wfOut.status # "none" /\ wfOut.failed \in GateSteps) =>
        /\ wfOut.status = "raised"
        /\ wfOut.executed[Len(wfOut.executed)] = wfOut.failed
        /\ InStateOrder(StepNames(wfOut.steps))
        /\ Len(wfOut.steps) > 0
        /\ wfOut.steps[Len(wfOut.steps)].step = wfOut.failed
        /\ ~wfOut.steps[Len(wfOut.steps)].ok

AllGatesPass(in) ==
    /\ validate_mix_spec(in.mix).ok
    /\ gate_master_meter(in.previewMeter, in.master, DEFAULT_CREST_MIN).ok
    /\ gate_master_meter(in.masterMeter, in.master, DEFAULT_CREST_MIN).ok
    /\ gate_stems(in.stems).ok

\* C3: with the soundfont, the preset and the render tools in place, the
\* workflow returns a report with ok = true if and only if mix_spec_validate,
\* preview_gate, mix_gate and mix_gate_stems all pass.
C3_DoneIffAllGatesPass ==
    (wfOut.status # "none" /\ wfIn.soundfont /\ wfIn.presetKnown /\ wfIn.toolsOk) =>
        ((wfOut.status = "returned" /\ wfOut.ok) <=> AllGatesPass(wfIn))

\* C4: a master gate (preview_gate, mix_gate) that is reported ok was met by
\* a meter within every threshold of the preset's gates.master.
C4_MasterGateAppliesPresetThresholds ==
    wfOut.status # "none" =>
        \A i \in 1..Len(wfOut.steps) :
            /\ (wfOut.steps[i].step = "preview_gate" /\ wfOut.steps[i].ok)
                   => MeetsPresetThresholds(wfIn.previewMeter, wfIn.master)
            /\ (wfOut.steps[i].step = "mix_gate" /\ wfOut.steps[i].ok)
                   => MeetsPresetThresholds(wfIn.masterMeter, wfIn.master)

(***************************************************************************)
(* Note pipeline: model/types.py Note, util/notes.py, util/drumkit.py,     *)
(* util/groove.py, arrange/variations.py                                   *)
(*                                                                         *)
(* A note is [start, duration, pitch, velocity, role, chance, mute,        *)
(* accent, glide_ticks]; role "none" is Python's None.  An exception is    *)
(* the value ValueError; a list holding it stands for the raise that       *)
(* ended the computation of the list.                                      *)
(***************************************************************************)
ValueError == [raised |-> "ValueError"]

IsRaised(x) == "raised" \in DOMAIN x

Raised(s) == \E i \in 1..Len(s) : IsRaised(s[i])

Raise == <<ValueError>>

\* a Python list: the elements are computed once, in order
List(f) == f \o <<>>

RECURSIVE Concat(_)
Concat(ss) == IF Len(ss) = 0 THEN <<>> ELSE Head(ss) \o Concat(Tail(ss))

SetMin(S) == CHOOSE x \in S : \A y \in S : x <= y

\* int(round(num / den)) for den > 0: Python rounds halves to even
PyRound(num, den) ==
    LET q == num \div den
        r == num % den
    IN  IF 2 * r > den \/ (2 * r = den /\ q % 2 = 1) THEN q + 1 ELSE q

\* x & 0x7FFFFFFF
Mask31(x) == (x % 1073741824) + 1073741824 * ((x \div 1073741824) % 2)

\* Note.__post_init__: the range checks that raise
NoteInitOk(n) ==
    /\ 0 <= n.pitch /\ n.pitch <= 127
    /\ 1 <= n.velocity /\ n.velocity <= 127
    /\ n.start >= 0
    /\ n.duration > 0

\* Note(...): the constructor, with the clamps of __post_init__
Note(n) ==
    IF ~NoteInitOk(n) THEN ValueError
    ELSE [n EXCEPT !.chance = Max(0, Min(100, @)),
                   !.accent = IF @ <= 0 THEN 100 ELSE @,
                   !.glide_ticks = IF @ < 0 THEN 0 ELSE @]

\* Note.effective_velocity
effective_velocity(n) == Max(1, Min(127, PyRound(n.velocity * n.accent, 100)))

\* util/notes.py apply_swing_tick (io/midi.py _apply_swing_tick is the same)
apply_swing_tick(tick, ppq, swing_percent) ==
    IF swing_percent <= 0 THEN tick
    ELSE LET step == ppq \div 4
         IN  IF step <= 0 THEN tick
             ELSE IF (tick \div step) % 2 = 1
                  THEN tick + ((step * swing_percent) \div 100)
                  ELSE tick

\* arrange/variations.py
section_at_tick(sections, tick) ==
    LET hits == {i \in 1..Len(sections) :
                    sections[i].start <= tick /\ tick < sections[i].start + sections[i].length}
    IN  IF hits = {} THEN "none" ELSE sections[SetMin(hits)].name

resolve_pattern_name(base_pattern, track_index, tick, sections, variations) ==
    LET sec == section_at_tick(sections, tick)
        hits == {i \in 1..Len(variations) :
                    /\ variations[i].section = sec
                    /\ variations[i].track_index = track_index
                    /\ variations[i].src_pattern = base_pattern}
    IN  IF sec = "none" \/ hits = {} THEN base_pattern
        ELSE variations[SetMin(hits)].dst_pattern

\* util/drumkit.py: the aliases and kit roles the inputs can name
ROLE_ALIASES == [bd |-> "kick", k |-> "kick", sd |-> "snare", s |-> "snare",
                 hh |-> "hat_closed", ch |-> "hat_closed"]

Layer(pitch, vel_mul) == [pitch |-> pitch, vel_mul |-> vel_mul]

BUILTIN_KITS ==
    [trap_hard |-> [kick |-> <<Layer(36, 100), Layer(35, 55)>>,
                    snare |-> <<Layer(38, 100), Layer(40, 65)>>,
                    hat_closed |-> <<Layer(42, 100)>>],
     gm_basic |-> [kick |-> <<Layer(36, 100)>>,
                   snare |-> <<Layer(38, 100)>>,
                   hat_closed |-> <<Layer(42, 100)>>]]

normalize_role(role) ==
    IF role = "none" THEN "none"
    ELSE IF role \in DOMAIN ROLE_ALIASES THEN ROLE_ALIASES[role] ELSE role

get_drum_kit(name) ==
    IF name \in DOMAIN BUILTIN_KITS THEN BUILTIN_KITS[name] ELSE BUILTIN_KITS["trap_hard"]

expand_role_note(note, track) ==
    LET role == normalize_role(note.role)
        kit == get_drum_kit(track.drum_kit)
        known == role \in DOMAIN kit
        layers == IF known THEN kit[role] ELSE kit["hat_closed"]
    IN  IF role = "none" THEN <<note>>
        ELSE IF ~known /\ 0 <= note.pitch /\ note.pitch <= 127 /\ note.pitch # 0 THEN <<note>>
        ELSE List([i \in 1..Len(layers) |->
                     Note([start |-> note.start,
                           duration |-> note.duration,
                           pitch |-> layers[i].pitch,
                           velocity |-> Max(1, Min(127, PyRound(note.velocity * layers[i].vel_mul, 100))),
                           role |-> "none",
                           chance |-> IF note.chance = 0 THEN 100 ELSE note.chance,
                           mute |-> note.mute,
                           accent |-> IF note.accent = 0 THEN 100 ELSE note.accent,
                           glide_ticks |-> note.glide_ticks])])

expand_role_notes(notes, track) ==
    Concat(List([i \in 1..Len(notes) |-> expand_role_note(notes[i], track)]))

\* The stable sort list.sort(key = ...) does; key[i] is the integer key of
\* s[i]
StableSort(s, key) ==
    LET n == Len(s)
        rank == List([i \in 1..n |->
                         Cardinality({j \in 1..n : key[j] < key[i] \/ (key[j] = key[i] /\ j < i)}) + 1])
    IN  List([p \in 1..n |-> s[CHOOSE i \in 1..n : rank[i] = p]])

\* random.Random(seed).randint(-k, k), the draw at position pos of the
\* stream: the generator is a fixed function of the seed and the position,
\* and rng.jit is that function as the run meets it, in units of k
randint(rng, seed, pos, k) == k * rng.jit[((seed + pos) % Len(rng.jit)) + 1]

\* random.Random(r).random() in hundredths, likewise a fixed function of r
random(rng, r) == rng.draw[(r % Len(rng.draw)) + 1]

\* the humanize loop writing the jittered start and velocity as they are
HumanizeNoteUnclamped(n, dt, dv) ==
    [n EXCEPT !.start = n.start + dt, !.velocity = n.velocity + dv]

\* util/groove.py: one note of the humanize loop
HumanizeNote(n, dt, dv) ==
    Note([n EXCEPT !.start = Max(0, n.start + dt),
                   !.velocity = Max(1, Min(127, n.velocity + dv))])

NoteSortKey(n) == n.start * 128 + n.pitch

humanize_notes(notes, settings, rng) ==
    IF settings.timing_ticks <= 0 /\ settings.velocity <= 0
    THEN List([i \in 1..Len(notes) |-> Note(notes[i])])
    ELSE LET both == settings.timing_ticks > 0 /\ settings.velocity > 0
             per == IF both THEN 2 ELSE 1
             dt(i) == IF settings.timing_ticks > 0
                      THEN randint(rng, settings.seed, (i - 1) * per, settings.timing_ticks)
                      ELSE 0
             dv(i) == IF settings.velocity > 0
                      THEN randint(rng, settings.seed, (i - 1) * per + (IF both THEN 1 ELSE 0),
                                   settings.velocity)
                      ELSE 0
             Sorted(out) ==
                 IF Raised(out) THEN Raise
                 ELSE StableSort(out, List([i \in 1..Len(out) |-> NoteSortKey(out[i])]))
         IN  Sorted(List([i \in 1..Len(notes) |-> HumanizeNote(notes[i], dt(i), dv(i))]))

\* the Note(start=start, duration=n.duration, ...) of the flatten loops
NoteAt(n, start) == Note([n EXCEPT !.start = start])

\* the clip and legacy loops of flatten_track_notes
AbsNotes(proj, track_index, track, ppq, swing_percent) ==
    IF Len(track.clips) > 0 /\ DOMAIN track.patterns # {}
    THEN Concat(List([c \in 1..Len(track.clips) |->
                 LET clip == track.clips[c]
                     pat_name == resolve_pattern_name(clip.pattern, track_index, clip.start,
                                                      proj.sections, proj.variations)
                 IN  IF pat_name \notin DOMAIN track.patterns THEN <<>>
                     ELSE LET pat == track.patterns[pat_name]
                          IN  Concat(List([rep \in 1..clip.repeats |->
                                      List([k \in 1..Len(pat.notes) |->
                                               NoteAt(pat.notes[k],
                                                      apply_swing_tick(clip.start + (rep - 1) * pat.length
                                                                           + pat.notes[k].start,
                                                                       ppq, swing_percent))])]))]))
    ELSE List([k \in 1..Len(track.notes) |->
                 NoteAt(track.notes[k], apply_swing_tick(track.notes[k].start, ppq, swing_percent))])

HumanizeSettings(track) ==
    [timing_ticks |-> track.humanize_timing, velocity |-> track.humanize_velocity,
     seed |-> track.humanize_seed]

flatten_track_notes(proj, track_index, track, expand_roles, apply_humanize, rng) ==
    LET Expand(abs_notes) ==
            IF Raised(abs_notes) THEN Raise
            ELSE IF expand_roles THEN expand_role_notes(abs_notes, track)
            ELSE abs_notes
        Humanize(expanded) ==
            IF Raised(expanded) THEN Raise
            ELSE IF apply_humanize THEN humanize_notes(expanded, HumanizeSettings(track), rng)
            ELSE expanded
    IN  Humanize(Expand(AbsNotes(proj, track_index, track, proj.ppq, proj.swing_percent)))

note_seed_base(track, track_index) == track.humanize_seed * 1000003 + track_index * 9176

\* one note of the gating loop: TRUE when the note plays
NotePlays(n, seed_base, rng) ==
    /\ ~n.mute
    /\ LET chance == IF n.chance = 0 THEN 100 ELSE n.chance
       IN  chance < 100 =>
             ~(random(rng, Mask31(seed_base + n.start * 31 + n.pitch * 131)) > chance)

apply_note_chance(notes, seed_base, rng) ==
    LET Test(n) == NotePlays(n, seed_base, rng)
    IN  SelectSeq(notes, Test)

(***************************************************************************)
(* Project JSON: to_dict / from_dict of model/types.py and                 *)
(* arrange/types.py, io/project_json.py, validation on load.  A dict is a  *)
(* function on the keys it holds; None is -1 for a tick and "none" for a   *)
(* name.                                                                   *)
(***************************************************************************)
MAX_TICK == 10000000
MAX_NOTES_PER_TRACK == 50000
MAX_NOTES_PER_PATTERN == 8192
MAX_CLIPS_PER_TRACK == 2048
CURRENT_SCHEMA_VERSION == 11

TypeError == [raised |-> "TypeError"]

EmptyDict == [k \in {} |-> 0]

\* Project.mix with nothing set (the default, an empty dict)
EmptyMix == [tracks |-> EmptyDict, sidechain |-> <<>>]

\* a key written only under a condition
Opt(cond, key, val) == IF cond THEN key :> val ELSE EmptyDict

\* Python's order of the role strings the inputs use
RoleNames == <<"bd", "kick", "zap">>

RoleRank(role) == IF role = "none" THEN 0 ELSE CHOOSE i \in 1..Len(RoleNames) : RoleNames[i] = role

\* the field tuple dataclass(order=True) compares
NoteTuple(n) ==
    <<n.start, n.duration, n.pitch, n.velocity, RoleRank(n.role), n.chance,
      IF n.mute THEN 1 ELSE 0, n.accent, n.glide_ticks>>

RECURSIVE TupleLess(_, _)
TupleLess(a, b) ==
    IF Len(a) = 0 THEN FALSE
    ELSE IF Head(a) # Head(b) THEN Head(a) < Head(b)
    ELSE TupleLess(Tail(a), Tail(b))

\* comparing two notes reaches role with None on one side and a string on
\* the other: '<' not supported between 'NoneType' and 'str'
RoleClash(a, b) ==
    /\ a.start = b.start /\ a.duration = b.duration
    /\ a.pitch = b.pitch /\ a.velocity = b.velocity
    /\ (a.role = "none") # (b.role = "none")

\* sorted(notes)
sorted_notes(notes) ==
    LET n == Len(notes)
        tup == List([i \in 1..n |-> NoteTuple(notes[i])])
        rank == List([i \in 1..n |->
                         Cardinality({j \in 1..n :
                             TupleLess(tup[j], tup[i]) \/ (tup[j] = tup[i] /\ j < i)}) + 1])
    IN  IF \E i, j \in 1..n : RoleClash(notes[i], notes[j]) THEN <<TypeError>>
        ELSE List([p \in 1..n |-> notes[CHOOSE i \in 1..n : rank[i] = p]])

\* Note.to_dict
note_to_dict(n) ==
    [start |-> n.start, duration |-> n.duration, pitch |-> n.pitch, velocity |-> n.velocity]
        @@ Opt(n.role # "none", "role", n.role)
        @@ Opt(n.mute, "mute", TRUE)
        @@ Opt(n.chance # 100, "chance", n.chance)
        @@ Opt(n.accent # 100, "accent", n.accent)
        @@ Opt(n.glide_ticks # 0, "glide_ticks", n.glide_ticks)

\* x or default, for a number
OrElse(x, default) == IF x = 0 THEN default ELSE x

\* Note.from_dict
note_from_dict(d) ==
    Note([start |-> d.start,
          duration |-> d.duration,
          pitch |-> Get(d, "pitch", 0),
          velocity |-> Get(d, "velocity", 100),
          role |-> Get(d, "role", "none"),
          chance |-> OrElse(Get(d, "chance", 100), 100),
          mute |-> Get(d, "mute", FALSE),
          accent |-> OrElse(Get(d, "accent", 100), 100),
          glide_ticks |-> OrElse(Get(d, "glide_ticks", 0), 0)])

notes_to_dicts(notes) ==
    LET Dicts(s) == IF Raised(s) THEN s ELSE List([i \in 1..Len(s) |-> note_to_dict(s[i])])
    IN  Dicts(sorted_notes(notes))

notes_from_dicts(ds) == List([i \in 1..Len(ds) |-> note_from_dict(ds[i])])

\* Pattern.to_dict / Pattern.from_dict
pattern_to_dict(pat) ==
    LET Dict(ns) == IF Raised(ns) THEN TypeError ELSE [length |-> pat.length, notes |-> ns]
    IN  Dict(notes_to_dicts(pat.notes))

pattern_from_dict(d) ==
    LET Pattern(ns) ==
            IF d.length <= 0 \/ Raised(ns) THEN ValueError ELSE [length |-> d.length, notes |-> ns]
    IN  Pattern(notes_from_dicts(Get(d, "notes", <<>>)))

\* Clip.to_dict / Clip.from_dict
clip_to_dict(c) == [pattern |-> c.pattern, start |-> c.start, repeats |-> c.repeats]

clip_from_dict(d) ==
    IF d.start < 0 \/ Get(d, "repeats", 1) <= 0 THEN ValueError
    ELSE [pattern |-> d.pattern, start |-> d.start, repeats |-> Get(d, "repeats", 1)]

\* Track.to_dict
track_to_dict(t) ==
    LET Dict(ns, pats) ==
            IF Raised(ns) \/ \E k \in DOMAIN pats : IsRaised(pats[k]) THEN TypeError
            ELSE [channel |-> t.channel,
                  drum_kit |-> t.drum_kit,
                  humanize |-> [timing |-> t.humanize_timing, velocity |-> t.humanize_velocity,
                                seed |-> t.humanize_seed],
                  mute |-> t.mute,
                  solo |-> t.solo,
                  notes |-> ns,
                  patterns |-> pats,
                  clips |-> List([i \in 1..Len(t.clips) |-> clip_to_dict(t.clips[i])])]
                 @@ Opt(t.instrument, "instrument", TRUE)
    IN  Dict(notes_to_dicts(t.notes),
             [k \in DOMAIN t.patterns |-> pattern_to_dict(t.patterns[k])])

\* Track.from_dict
track_from_dict(d) ==
    LET human == Get(d, "humanize", EmptyDict)
        Patterns(pd) == [k \in DOMAIN pd |-> pattern_from_dict(pd[k])]
        Clips(cd) == List([i \in 1..Len(cd) |-> clip_from_dict(cd[i])])
        Track(ns, pats, cs) ==
            IF ~TrackInitOk(d) \/ Raised(ns) \/ Raised(cs)
                   \/ \E k \in DOMAIN pats : IsRaised(pats[k])
            THEN ValueError
            ELSE [channel |-> d.channel,
                  drum_kit |-> Get(d, "drum_kit", "trap_hard"),
                  humanize_timing |-> Get(human, "timing", 0),
                  humanize_velocity |-> Get(human, "velocity", 0),
                  humanize_seed |-> Get(human, "seed", 0),
                  instrument |-> Has(d, "instrument"),
                  mute |-> Get(d, "mute", FALSE),
                  solo |-> Get(d, "solo", FALSE),
                  notes |-> ns,
                  patterns |-> pats,
                  clips |-> cs]
    IN  Track(notes_from_dicts(Get(d, "notes", <<>>)),
              Patterns(Get(d, "patterns", EmptyDict)),
              Clips(Get(d, "clips", <<>>)))

\* Project.to_dict
project_to_dict(p) ==
    LET Dict(ts) ==
            IF Raised(ts) THEN TypeError
            ELSE [schema_version |-> CURRENT_SCHEMA_VERSION,
                  ppq |-> p.ppq,
                  swing_percent |-> p.swing_percent,
                  loop_start |-> p.loop_start,
                  loop_end |-> p.loop_end,
                  render_start |-> p.render_start,
                  render_end |-> p.render_end,
                  mix |-> p.mix,
                  arrangement |-> [sections |-> p.sections, variations |-> p.variations],
                  tracks |-> ts]
    IN  Dict(List([i \in 1..Len(p.tracks) |-> track_to_dict(p.tracks[i])]))

\* Project.from_dict
project_from_dict(d) ==
    LET arr == Get(d, "arrangement", EmptyDict)
        Tracks(td) == List([i \in 1..Len(td) |-> track_from_dict(td[i])])
        Project(ts) ==
            IF Raised(ts) THEN ValueError
            ELSE [ppq |-> Get(d, "ppq", 480),
                  swing_percent |-> Get(d, "swing_percent", 0),
                  loop_start |-> Get(d, "loop_start", -1),
                  loop_end |-> Get(d, "loop_end", -1),
                  render_start |-> Get(d, "render_start", -1),
                  render_end |-> Get(d, "render_end", -1),
                  mix |-> Get(d, "mix", EmptyMix),
                  sections |-> Get(arr, "sections", <<>>),
                  variations |-> Get(arr, "variations", <<>>),
                  tracks |-> ts]
    IN  Project(Tracks(Get(d, "tracks", <<>>)))

\* migrate_project_dict: every migration step is a setdefault of a key an
\* older schema lacks; the last line stamps the current version
migrate_project_dict(d) ==
    LET schema == OrElse(Get(d, "schema_version", 1), 1)
        filled == IF schema < CURRENT_SCHEMA_VERSION
                  THEN d @@ [swing_percent |-> 0, loop_start |-> -1, loop_end |-> -1,
                             render_start |-> -1, render_end |-> -1, mix |-> EmptyMix,
                             arrangement |-> [sections |-> <<>>, variations |-> <<>>]]
                  ELSE d
    IN  [k \in DOMAIN filled \cup {"schema_version"} |->
            IF k = "schema_version" THEN CURRENT_SCHEMA_VERSION ELSE filled[k]]

\* validate_and_migrate_project: the sanity pass over one note
validate_note(n) ==
    [n EXCEPT !.pitch = clamp(@, 0, 127),
              !.velocity = clamp(@, 1, 127),
              !.role = normalize_role(@),
              !.start = IF @ < 0 THEN 0 ELSE IF @ > MAX_TICK THEN MAX_TICK ELSE @,
              !.duration = IF @ <= 0 THEN 1 ELSE IF @ > MAX_TICK THEN MAX_TICK ELSE @]

validate_notes(notes, cap) ==
    LET Sane(kept) == List([i \in 1..Len(kept) |-> validate_note(kept[i])])
    IN  Sane(IF Len(notes) > cap THEN SubSeq(sorted_notes(notes), 1, cap) ELSE notes)

validate_pattern(pat, ppq) ==
    [length |-> clamp(IF pat.length <= 0 THEN ppq * 4 ELSE pat.length, 1, MAX_TICK),
     notes |-> validate_notes(pat.notes, MAX_NOTES_PER_PATTERN)]

\* validate_and_migrate_project: the body of the loop over the tracks
validate_track(t, ppq) ==
    [t EXCEPT !.drum_kit = IF @ \in DOMAIN BUILTIN_KITS THEN @ ELSE "trap_hard",
              !.humanize_timing = clamp(@, 0, ppq \div 8),
              !.humanize_velocity = clamp(@, 0, 30),
              !.clips = IF Len(@) > MAX_CLIPS_PER_TRACK THEN SubSeq(@, 1, MAX_CLIPS_PER_TRACK)
                        ELSE @,
              !.notes = validate_notes(@, MAX_NOTES_PER_TRACK),
              !.patterns = [k \in DOMAIN @ |-> validate_pattern(@[k], ppq)]]

\* a loop or render region that is not a proper range is cleared
RegionOk(a, b) == ~(a # -1 /\ b # -1) \/ ~(b <= a \/ a < 0 \/ b > MAX_TICK)

\* validate_and_migrate_project over the whole project
validate_loaded_project(p) ==
    LET ppq == clamp(p.ppq, 24, 1920)
        Tracks(tracks) == List([i \in 1..Len(tracks) |-> validate_track(tracks[i], ppq)])
    IN  [p EXCEPT !.ppq = ppq,
                  !.swing_percent = clamp(@, 0, 75),
                  !.loop_start = IF RegionOk(p.loop_start, p.loop_end) THEN @ ELSE -1,
                  !.loop_end = IF RegionOk(p.loop_start, p.loop_end) THEN @ ELSE -1,
                  !.render_start = IF RegionOk(p.render_start, p.render_end) THEN @ ELSE -1,
                  !.render_end = IF RegionOk(p.render_start, p.render_end) THEN @ ELSE -1,
                  !.tracks = Tracks(validate_and_migrate_project(p.tracks))]

\* io/project_json.py: save_project writes to_dict as JSON, load_project
\* reads it back, migrates, builds the Project and validates it
project_json_save(p) == project_to_dict(p)

project_json_load(file) ==
    LET Validated(built) == IF IsRaised(built) THEN built ELSE validate_loaded_project(built)
    IN  Validated(project_from_dict(migrate_project_dict(file)))

(***************************************************************************)
(* MIDI emission (io/midi.py), region slicing (util/region.py) and the     *)
(* WAV export path (cli/headless.py export_wav, audio/render.py)           *)
(***************************************************************************)
\* an event of _iter_track_events: (tick, message); for a control change
\* note holds the controller number
Msg(tick, type, note, velocity) ==
    [tick |-> tick, type |-> type, note |-> note, velocity |-> velocity]

ControlEvents ==
    <<Msg(0, "program_change", 0, 0), Msg(0, "control_change", 7, 0),
      Msg(0, "control_change", 10, 0), Msg(0, "control_change", 91, 0),
      Msg(0, "control_change", 93, 0)>>

\* the sort key of _iter_track_events: (tick, 1 if note_off else 0)
EventSortKey(e) == e.tick * 2 + (IF e.type = "note_off" THEN 1 ELSE 0)

\* _iter_track_events: flatten, expand, humanize, gate, then emit and sort
iter_track_events(proj, track_index, track, rng) ==
    LET seed_base == track.humanize_seed * 1000003 + track_index * 9176
        NoteEvents(playing) ==
            Concat(List([i \in 1..Len(playing) |->
                      <<Msg(playing[i].start, "note_on", playing[i].pitch,
                            effective_velocity(playing[i])),
                        Msg(playing[i].start + playing[i].duration, "note_off",
                            playing[i].pitch, 0)>>]))
        Sorted(events) ==
            StableSort(events, List([i \in 1..Len(events) |-> EventSortKey(events[i])]))
        Events(abs_notes) ==
            IF Raised(abs_notes) THEN Raise
            ELSE Sorted(ControlEvents \o NoteEvents(apply_note_chance(abs_notes, seed_base, rng)))
    IN  Events(flatten_track_notes(proj, track_index, track, TRUE, TRUE, rng))

\* _apply_mute_solo (audio/render.py _active_tracks is the same)
apply_mute_solo(proj) ==
    LET soloed == {i \in 1..Len(proj.tracks) : proj.tracks[i].solo}
    IN  IF soloed # {} THEN soloed ELSE {i \in 1..Len(proj.tracks) : ~proj.tracks[i].mute}

Ascending(S) ==
    List([p \in 1..Cardinality(S) |-> CHOOSE x \in S : Cardinality({y \in S : y < x}) = p - 1])

\* the loop of project_to_midifile that turns absolute ticks into deltas
Deltas(events) ==
    List([i \in 1..Len(events) |->
             [type |-> events[i].type, note |-> events[i].note, velocity |-> events[i].velocity,
              time |-> events[i].tick - (IF i = 1 THEN 0 ELSE events[i - 1].tick)]])

Meta(type) == [type |-> type, note |-> 0, velocity |-> 0, time |-> 0]

\* project_to_midifile: the tempo track, then one track per allowed track
project_to_midifile(proj, allowed, rng) ==
    LET File(evs) ==
            IF \E k \in 1..Len(evs) : Raised(evs[k]) THEN ValueError
            ELSE [ticks_per_beat |-> proj.ppq,
                  tracks |-> <<<<Meta("set_tempo"), Meta("track_name")>>>>
                                \o List([k \in 1..Len(evs) |->
                                            <<Meta("track_name")>> \o Deltas(evs[k])])]
        Tracks(idx) ==
            File(List([k \in 1..Len(idx) |->
                         iter_track_events(proj, idx[k] - 1, proj.tracks[idx[k]], rng)]))
    IN  Tracks(Ascending({i \in 1..Len(proj.tracks) : i \in allowed}))

\* util/derived.py
project_song_end_tick(proj) ==
    LET clipEnds == UNION {{proj.tracks[i].clips[c].start
                              + proj.tracks[i].clips[c].repeats
                                  * proj.tracks[i].patterns[proj.tracks[i].clips[c].pattern].length :
                            c \in {c \in 1..Len(proj.tracks[i].clips) :
                                     /\ DOMAIN proj.tracks[i].patterns # {}
                                     /\ proj.tracks[i].clips[c].pattern
                                            \in DOMAIN proj.tracks[i].patterns}} :
                           i \in 1..Len(proj.tracks)}
        noteEnds == UNION {{proj.tracks[i].notes[k].start + proj.tracks[i].notes[k].duration :
                            k \in 1..Len(proj.tracks[i].notes)} : i \in 1..Len(proj.tracks)}
        ends == clipEnds \cup noteEnds \cup {0}
    IN  CHOOSE e \in ends : \A x \in ends : x <= e

\* slice_project_range: one source note at absolute position pos
SliceNote(proj, n, pos, start, end) ==
    LET st == apply_swing_tick(pos, proj.ppq, proj.swing_percent)
        en == st + n.duration
        new_start == Max(st, start) - start
        new_end == Min(en, end) - start
    IN  IF st >= end \/ en <= start THEN <<>>
        ELSE <<Note([n EXCEPT !.start = new_start, !.duration = Max(1, new_end - new_start)])>>

SliceTrack(proj, t, start, end) ==
    IF Len(t.clips) > 0 /\ DOMAIN t.patterns # {}
    THEN Concat(List([c \in 1..Len(t.clips) |->
                 IF t.clips[c].pattern \notin DOMAIN t.patterns THEN <<>>
                 ELSE LET pat == t.patterns[t.clips[c].pattern]
                      IN  Concat(List([rep \in 1..t.clips[c].repeats |->
                                  Concat(List([k \in 1..Len(pat.notes) |->
                                           SliceNote(proj, pat.notes[k],
                                                     t.clips[c].start + (rep - 1) * pat.length + pat.notes[k].start,
                                                     start, end)]))]))]))
    ELSE Concat(List([k \in 1..Len(t.notes) |->
                 SliceNote(proj, t.notes[k], t.notes[k].start, start, end)]))

slice_project_range(proj, start0, end0) ==
    LET start == IF start0 < 0 THEN 0 ELSE start0
        end == IF end0 <= start THEN start ELSE end0
        Sliced(sliced) ==
            IF \E i \in 1..Len(proj.tracks) : Raised(sliced[i]) THEN ValueError
            ELSE [ppq |-> proj.ppq,
                  swing_percent |-> proj.swing_percent,
                  loop_start |-> -1,
                  loop_end |-> -1,
                  render_start |-> 0,
                  render_end |-> end - start,
                  mix |-> EmptyMix,
                  sections |-> <<>>,
                  variations |-> <<>>,
                  tracks |-> List([i \in 1..Len(proj.tracks) |->
                                     [proj.tracks[i] EXCEPT !.notes = sliced[i],
                                                            !.patterns = EmptyDict,
                                                            !.clips = <<>>]])]
    IN  Sliced(List([i \in 1..Len(proj.tracks) |-> SliceTrack(proj, proj.tracks[i], start, end)]))

\* convert_sampler_drums_to_gm for a project without sampler tracks: the
\* copy it makes through to_dict and from_dict
convert_sampler_drums_to_gm(proj) ==
    LET Copy(d) == IF IsRaised(d) THEN d ELSE project_from_dict(d)
    IN  Copy(project_to_dict(proj))

\* render_project_wav without a mix spec, drum_mode "gm": the MIDI file
\* handed to FluidSynth and the notes handed to each instrument plugin
render_project_wav(proj0, rng) ==
    LET Rendered(proj, inst, midi, flat) ==
            IF IsRaised(midi) \/ \E k \in 1..Len(inst) : Raised(flat[k]) THEN ValueError
            ELSE [project |-> proj,
                  midi |-> midi,
                  instrument |->
                      List([k \in 1..Len(inst) |->
                               apply_note_chance(flat[k],
                                                 note_seed_base(proj.tracks[inst[k]], inst[k] - 1),
                                                 rng)])]
        Instruments(proj, inst, midi) ==
            Rendered(proj, inst, midi,
                     List([k \in 1..Len(inst) |->
                              flatten_track_notes(proj, inst[k] - 1, proj.tracks[inst[k]],
                                                  TRUE, TRUE, rng)]))
        Active(proj, active) ==
            Instruments(proj,
                        Ascending({i \in active : proj.tracks[i].instrument}),
                        project_to_midifile(proj, {i \in active : ~proj.tracks[i].instrument}, rng))
        Render(proj) == IF IsRaised(proj) THEN proj ELSE Active(proj, apply_mute_solo(proj))
    IN  Render(convert_sampler_drums_to_gm(proj0))

\* export_wav: derive the region, slice, render
export_wav(proj, rng) ==
    LET start == IF proj.loop_start # -1 /\ proj.loop_end # -1 THEN proj.loop_start
                 ELSE IF proj.render_start # -1 THEN proj.render_start ELSE 0
        end == IF proj.loop_start # -1 /\ proj.loop_end # -1 THEN proj.loop_end
               ELSE IF proj.render_end # -1 THEN proj.render_end
               ELSE project_song_end_tick(proj)
        Render(render_proj) ==
            IF IsRaised(render_proj) THEN render_proj ELSE render_project_wav(render_proj, rng)
    IN  Render(slice_project_range(proj, start, end))

(***************************************************************************)
(* Exports of one project: export_midi and export_wav                      *)
(***************************************************************************)
MaxNotes == 2

PlainNote(start, duration, pitch, velocity) ==
    [start |-> start, duration |-> duration, pitch |-> pitch, velocity |-> velocity,
     role |-> "none", chance |-> 100, mute |-> FALSE, accent |-> 100, glide_ticks |-> 0]

\* Notes of a 24-ppq project (a sixteenth is 6 ticks), as validation leaves
\* them: two back-to-back notes of one pitch, the second accented, a
\* chance-0 one, a half-chance kick, a muted one, a note with an unknown
\* role and pitch 0.
NotePool ==
    {PlainNote(0, 6, 60, 100),
     [PlainNote(6, 6, 60, 127) EXCEPT !.accent = 115],
     [PlainNote(6, 3, 62, 60) EXCEPT !.chance = 0],
     [PlainNote(12, 6, 36, 1) EXCEPT !.role = "kick", !.chance = 50],
     [PlainNote(3, 3, 64, 60) EXCEPT !.mute = TRUE],
     [PlainNote(18, 12, 0, 100) EXCEPT !.role = "zap"]}

NoteLists == SeqsUpTo(NotePool, MaxNotes)

\* the streams random.Random yields, as the tables randint and random read
RngTables ==
    {[jit |-> <<-1, 1>>, draw |-> <<0, 99>>],
     [jit |-> <<1, -1>>, draw |-> <<99, 0>>],
     [jit |-> <<1, 0>>, draw |-> <<50, 50>>]}

NtTrack(notes, patterns, clips, humanized, drum_kit, instrument) ==
    [channel |-> 0, drum_kit |-> drum_kit,
     humanize_timing |-> IF humanized THEN 3 ELSE 0,
     humanize_velocity |-> IF humanized THEN 20 ELSE 0,
     humanize_seed |-> IF humanized THEN 1 ELSE 0,
     instrument |-> instrument, mute |-> FALSE, solo |-> FALSE,
     notes |-> notes, patterns |-> patterns, clips |-> clips]

NtProject(swing, region, sections, variations, track) ==
    [ppq |-> 24, swing_percent |-> swing, loop_start |-> -1, loop_end |-> -1,
     render_start |-> region[1], render_end |-> region[2], mix |-> EmptyMix,
     sections |-> sections, variations |-> variations, tracks |-> <<track>>]

\* a track of legacy notes, or a clip of pattern A placed at clipStart and
\* played twice, with a section over the first bar that swaps A for B
NtProjects ==
    {NtProject(swing, region, <<>>, <<>>,
               NtTrack(notes, EmptyDict, <<>>, humanized, kit, instrument)) :
        swing \in {0, 50}, region \in {<<-1, -1>>, <<6, 30>>}, notes \in NoteLists,
        humanized \in BOOLEAN, kit \in {"trap_hard", "gm_basic"}, instrument \in BOOLEAN}
    \cup
    {NtProject(swing, region,
               <<[name |-> "verse", start |-> 0, length |-> 24]>>,
               <<[section |-> "verse", track_index |-> 0, src_pattern |-> "A",
                  dst_pattern |-> "B"]>>,
               NtTrack(<<>>,
                       [A |-> [length |-> 24, notes |-> notes],
                        B |-> [length |-> 24, notes |-> <<PlainNote(6, 12, 67, 100)>>]],
                       <<[pattern |-> "A", start |-> clipStart, repeats |-> 2]>>,
                       humanized, "trap_hard", FALSE)) :
        swing \in {0, 50}, region \in {<<-1, -1>>, <<6, 30>>}, notes \in NoteLists,
        humanized \in BOOLEAN, clipStart \in {0, 24}}

InitNotes ==
    /\ ntIn \in [project : NtProjects, rng : RngTables]
    /\ ntOut = [kind |-> "none"]
    /\ SessionIdle
    /\ TcIdle
    /\ WfIdle
    /\ JsIdle
    /\ MixIdle
    /\ FpIdle
    /\ GenIdle
    /\ ScriptIdle
    /\ MigIdle
    /\ RenIdle
    /\ EdIdle

\* the notes flatten_track_notes gives for each track of proj, and those of
\* them the chance gate lets play
FlatOf(proj, rng) ==
    List([i \in 1..Len(proj.tracks) |->
             flatten_track_notes(proj, i - 1, proj.tracks[i], TRUE, TRUE, rng)])

PlayingOf(proj, flat, rng) ==
    List([i \in 1..Len(proj.tracks) |->
             apply_note_chance(flat[i], note_seed_base(proj.tracks[i], i - 1), rng)])

\* what an export leaves behind: the project that was rendered, its notes
\* before and after the chance gate, the MIDI tracks and the plugin notes
Exported(kind, proj, flat, midi, instrument, rng) ==
    [kind |-> kind, ok |-> TRUE, rendered |-> proj, flat |-> flat,
     playing |-> PlayingOf(proj, flat, rng), midi |-> midi.tracks, instrument |-> instrument]

\* export_midi <path>
ExportMidi ==
    /\ ntOut.kind = "none"
    /\ LET proj == ntIn.project
           Out(mf) == IF IsRaised(mf) THEN [kind |-> "midi", ok |-> FALSE]
                      ELSE Exported("midi", proj, FlatOf(proj, ntIn.rng), mf, <<>>, ntIn.rng)
       IN  ntOut' = Out(project_to_midifile(proj, apply_mute_solo(proj), ntIn.rng))
    /\ UNCHANGED <<ntIn, notNtVars>>

\* export_wav <path>
ExportWav ==
    /\ ntOut.kind = "none"
    /\ LET Out(r) == IF IsRaised(r) THEN [kind |-> "wav", ok |-> FALSE]
                     ELSE Exported("wav", r.project, FlatOf(r.project, ntIn.rng), r.midi,
                                   r.instrument, ntIn.rng)
       IN  ntOut' = Out(export_wav(ntIn.project, ntIn.rng))
    /\ UNCHANGED <<ntIn, notNtVars>>

NextNotes ==
    \/ ExportMidi
    \/ ExportWav

SpecNotes == InitNotes /\ [][NextNotes]_vars

(***************************************************************************)
(* Properties of the exports                                               *)
(***************************************************************************)
NtDone == ntOut.kind # "none" /\ ntOut.ok

\* the absolute tick of the i-th message of a MIDI track
RECURSIVE TickAt(_, _)
TickAt(tr, i) == IF i = 0 THEN 0 ELSE TickAt(tr, i - 1) + tr[i].time

\* C1: in every emitted MIDI track the absolute ticks ascend, and on a tick
\* that holds both a note_off and a note_on the note_off comes first.
C1_NoteOffBeforeNoteOn ==
    NtDone =>
        \A t \in 1..Len(ntOut.midi) :
            LET tr == ntOut.midi[t]
            IN  /\ \A i \in 1..Len(tr) : tr[i].time >= 0
                /\ \A i, j \in 1..Len(tr) :
                       (i < j /\ tr[i].type = "note_on" /\ tr[j].type = "note_off")
                           => TickAt(tr, i) # TickAt(tr, j)

\* the positions the notes of a track have before swing: a legacy note's
\* start, or clip start + repeat offset + the pattern note's start
SourceStarts(track) ==
    IF Len(track.clips) > 0 /\ DOMAIN track.patterns # {}
    THEN UNION {UNION {{track.clips[c].start + rep * track.patterns[name].length
                            + track.patterns[name].notes[k].start :
                          k \in 1..Len(track.patterns[name].notes)} :
                       rep \in 0..(track.clips[c].repeats - 1)} :
                c \in 1..Len(track.clips), name \in DOMAIN track.patterns}
    ELSE {track.notes[k].start : k \in 1..Len(track.notes)}

\* the start a source note has in the export when swing is applied to it
\* once: swung, then moved to the start of the exported region
SwungOnce(proj, track, region_start) ==
    {Max(apply_swing_tick(p, proj.ppq, proj.swing_percent), region_start) - region_start :
        p \in SourceStarts(track)}

RegionStart ==
    IF ntOut.kind = "wav" /\ ntIn.project.render_start # -1 THEN ntIn.project.render_start ELSE 0

\* C5: on every export path, the WAV export that slices and then renders
\* included, the start of every note that reaches the synth is the source
\* start with the swing offset applied once (tracks without timing
\* humanization, where the start is swing alone).
C5_SwingAppliedOnce ==
    NtDone =>
        \A i \in 1..Len(ntOut.flat) :
            ntIn.project.tracks[i].humanize_timing = 0 =>
                \A k \in 1..Len(ntOut.flat[i]) :
                    ntOut.flat[i][k].start
                        \in SwungOnce(ntIn.project, ntIn.project.tracks[i], RegionStart)

\* C8: of the flattened notes exactly these play: the unmuted ones whose
\* chance is 1.0, and the unmuted ones of chance c < 1.0, c = 0.0 included,
\* whose seeded draw r is not above c.
C8_ChanceGating ==
    NtDone =>
        \A i \in 1..Len(ntOut.flat) :
            LET seed_base == note_seed_base(ntOut.rendered.tracks[i], i - 1)
                Kept(n) ==
                    /\ ~n.mute
                    /\ n.chance < 100 =>
                           ~(random(ntIn.rng, Mask31(seed_base + n.start * 31 + n.pitch * 131))
                                 > n.chance)
            IN  ntOut.playing[i] = SelectSeq(ntOut.flat[i], Kept)

\* the project is as validation leaves it
PassedValidation(proj) == validate_loaded_project(proj) = proj

\* C9: for a project that passed validation, every note flattening yields
\* (after swing, variation resolution, role expansion and humanization) has
\* velocity in 1..127, start >= 0, duration >= 1 and pitch in 0..127.
C9_FlattenedNotesInRange ==
    (NtDone /\ PassedValidation(ntIn.project)) =>
        \A i \in 1..Len(ntOut.flat) :
            \A k \in 1..Len(ntOut.flat[i]) :
                LET n == ntOut.flat[i][k]
                IN  /\ 1 <= n.velocity /\ n.velocity <= 127
                    /\ n.start >= 0
                    /\ n.duration >= 1
                    /\ 0 <= n.pitch /\ n.pitch <= 127

\* a swung, humanized track of a validated project whose kick of velocity 1
\* was expanded into the two layers of the kit and then jittered downwards,
\* which the clamp of the humanize loop caught
C9_Witness ==
    /\ NtDone
    /\ PassedValidation(ntIn.project)
    /\ ntIn.project.tracks[1].humanize_velocity > 0
    /\ ntIn.project.swing_percent > 0
    /\ ntIn.rng.jit[1] < 0
    /\ \E k \in 1..Len(ntOut.flat[1]) :
           ntOut.flat[1][k].pitch = 35 /\ ntOut.flat[1][k].velocity = 1

\* the notes a clip track yields when each repetition takes the pattern its
\* own tick resolves to (swing, then the Note constructor, as flattening does)
PerRepetitionNotes(proj, track_index, track) ==
    Concat(List([c \in 1..Len(track.clips) |->
        LET clip == track.clips[c]
            length == track.patterns[clip.pattern].length
        IN  Concat(List([rep \in 1..clip.repeats |->
                LET tick == clip.start + (rep - 1) * length
                    pat == track.patterns[resolve_pattern_name(clip.pattern, track_index, tick,
                                                               proj.sections, proj.variations)]
                IN  List([k \in 1..Len(pat.notes) |->
                             NoteAt(pat.notes[k],
                                    apply_swing_tick(tick + pat.notes[k].start,
                                                     proj.ppq, proj.swing_percent))])]))]))

\* C21: for every clip repetition the notes placed at its tick come from the
\* pattern resolved for the section containing that tick (the variation's
\* dst if one matches section, track and src, the base pattern otherwise),
\* so a clip that crosses a section boundary uses each section's own
\* substitution (MIDI export of tracks without humanization).
C21_VariationPerRepetition ==
    (NtDone /\ ntOut.kind = "midi") =>
        \A i \in 1..Len(ntOut.flat) :
            LET track == ntIn.project.tracks[i]
            IN  (Len(track.clips) > 0 /\ track.humanize_timing = 0 /\ track.humanize_velocity = 0)
                    => ntOut.flat[i]
                           = expand_role_notes(PerRepetitionNotes(ntIn.project, i - 1, track), track)

\* the notes of a flattened track that fall in [start, end), clamped to the
\* window and shifted so that the window starts at 0
InWindow(proj, flat, start, end) ==
    Concat(List([k \in 1..Len(flat) |-> SliceNote(proj, flat[k], flat[k].start, start, end)]))

\* C26: for a project with swing 0, sections and variations included,
\* flattening the slice of the project to a region gives the notes that
\* flattening the project itself gives, restricted to the region and
\* shifted to start at 0 (tracks without humanization), so the WAV export
\* plays the patterns the MIDI export plays.
C26_SliceAgreesWithFlatten ==
    (NtDone /\ ntOut.kind = "wav" /\ ntIn.project.swing_percent = 0) =>
        LET start == RegionStart
            end == RegionStart + ntOut.rendered.render_end
            Agree(sliced) ==
                \A i \in 1..Len(ntIn.project.tracks) :
                    LET track == ntIn.project.tracks[i]
                    IN  (track.humanize_timing = 0 /\ track.humanize_velocity = 0)
                            => flatten_track_notes(sliced, i - 1, sliced.tracks[i], TRUE, FALSE,
                                                   ntIn.rng)
                                   = InWindow(ntIn.project,
                                              flatten_track_notes(ntIn.project, i - 1, track, TRUE,
                                                                  FALSE, ntIn.rng),
                                              start, end)
        IN  Agree(slice_project_range(ntIn.project, start, end))

(***************************************************************************)
(* Saving a project and loading it back (io/project_json.py)               *)
(***************************************************************************)
\* the projects that are saved: valid ones, as the exports take them
InitJson ==
    /\ jsIn \in [project : NtProjects]
    /\ jsOut = [status |-> "none"]
    /\ SessionIdle
    /\ TcIdle
    /\ WfIdle
    /\ NtIdle
    /\ MixIdle
    /\ FpIdle
    /\ GenIdle
    /\ ScriptIdle
    /\ MigIdle
    /\ RenIdle
    /\ EdIdle

\* save_project: the payload of to_dict goes to the file
SaveProject ==
    /\ jsOut.status = "none"
    /\ LET Saved(file) == IF IsRaised(file) THEN [status |-> "error"]
                          ELSE [status |-> "saved", file |-> file]
       IN  jsOut' = Saved(project_json_save(jsIn.project))
    /\ UNCHANGED <<jsIn, notJsVars>>

\* load_project: the file is read, migrated, built and validated
LoadProject ==
    /\ jsOut.status = "saved"
    /\ LET Loaded(p) == IF IsRaised(p) THEN [status |-> "error"]
                        ELSE [status |-> "loaded", file |-> jsOut.file, project |-> p]
       IN  jsOut' = Loaded(project_json_load(jsOut.file))
    /\ UNCHANGED <<jsIn, notJsVars>>

NextJson ==
    \/ SaveProject
    \/ LoadProject

SpecJson == InitJson /\ [][NextJson]_vars

\* C7: for every valid project P, load_project(save_project(P)) equals P in
\* every persisted field: settings, mix, sections, variations, tracks,
\* patterns, clips and every attribute of every note, a chance of 0.0
\* included.
C7_LoadSaveRoundTrip ==
    jsOut.status = "loaded" => jsOut.project = jsIn.project

(***************************************************************************)
(* Loop and render region (cli/headless.py set_loop, clear_loop,           *)
(* set_render_region, clear_render_region; util/validate.py on load).      *)
(* Here project is [open, ppq, swing_percent, loop_start, loop_end,        *)
(* render_start, render_end, tracks]; None is -1, so the tick -1 itself    *)
(* is left out of the inputs.                                              *)
(***************************************************************************)
\* Project(name=..., tempo_bpm=...): the defaults of the dataclass
NewProjectRecord ==
    [open |-> TRUE, ppq |-> 480, swing_percent |-> 0, loop_start |-> -1, loop_end |-> -1,
     render_start |-> -1, render_end |-> -1, tracks |-> <<>>]

\* the arguments a script gives set_loop and set_render_region
RegionArgs ==
    {<<"0">>, <<"1", "0">>, <<"1", "0", "0", "0", "0", "0", "0", "1">>, <<"x">>}

\* the loop and render bounds a project file may hold
FileTicks == {-1, 0, 10, MAX_TICK + 1}

\* _tick(proj, s)
tick(proj, s) == parse_timecode_ticks(proj.ppq, [kind |-> "str", int |-> 0, chars |-> s])

InitRegion ==
    /\ project = [open |-> FALSE, tracks |-> <<>>]
    /\ lastResult = "none"
    /\ TcIdle
    /\ WfIdle
    /\ NtIdle
    /\ JsIdle
    /\ MixIdle
    /\ FpIdle
    /\ GenIdle
    /\ ScriptIdle
    /\ MigIdle
    /\ RenIdle
    /\ EdIdle

\* new_project <name>
RegionNewProject ==
    /\ project' = NewProjectRecord
    /\ lastResult' = "ok"
    /\ UNCHANGED notSessionVars

\* open_project <path>: load_project validates what Project.from_dict built
RegionOpenProject ==
    /\ \E ls, le, rs, re \in FileTicks :
           project' = validate_loaded_project(
                          [NewProjectRecord EXCEPT !.ppq = 24, !.loop_start = ls, !.loop_end = le,
                                                   !.render_start = rs, !.render_end = re])
    /\ lastResult' = "ok"
    /\ UNCHANGED notSessionVars

\* set_loop <start> <end>: the two assignments, each after its own parse
SetLoop ==
    /\ \E a, b \in RegionArgs :
           LET s == tick(project, a)
               e == tick(project, b)
           IN  IF ~project.open THEN project' = project /\ lastResult' = "error"
               ELSE IF s.status = "error" THEN project' = project /\ lastResult' = "error"
               ELSE IF e.status = "error"
               THEN project' = [project EXCEPT !.loop_start = s.ticks] /\ lastResult' = "error"
               ELSE /\ project' = [project EXCEPT !.loop_start = s.ticks, !.loop_end = e.ticks]
                    /\ lastResult' = "ok"
    /\ UNCHANGED notSessionVars

\* clear_loop
ClearLoop ==
    /\ IF ~project.open THEN project' = project /\ lastResult' = "error"
       ELSE /\ project' = [project EXCEPT !.loop_start = -1, !.loop_end = -1]
            /\ lastResult' = "ok"
    /\ UNCHANGED notSessionVars

\* set_render_region <start> <end>
SetRenderRegion ==
    /\ \E a, b \in RegionArgs :
           LET s == tick(project, a)
               e == tick(project, b)
           IN  IF ~project.open THEN project' = project /\ lastResult' = "error"
               ELSE IF s.status = "error" THEN project' = project /\ lastResult' = "error"
               ELSE IF e.status = "error"
               THEN project' = [project EXCEPT !.render_start = s.ticks] /\ lastResult' = "error"
               ELSE /\ project' = [project EXCEPT !.render_start = s.ticks, !.render_end = e.ticks]
                    /\ lastResult' = "ok"
    /\ UNCHANGED notSessionVars

\* clear_render_region
ClearRenderRegion ==
    /\ IF ~project.open THEN project' = project /\ lastResult' = "error"
       ELSE /\ project' = [project EXCEPT !.render_start = -1, !.render_end = -1]
            /\ lastResult' = "ok"
    /\ UNCHANGED notSessionVars

NextRegion ==
    \/ RegionNewProject
    \/ RegionOpenProject
    \/ SetLoop
    \/ ClearLoop
    \/ SetRenderRegion
    \/ ClearRenderRegion

SpecRegion == InitRegion /\ [][NextRegion]_vars

\* a region that is held (both bounds set) is a proper one within the limit
RegionHeldOk(a, b) == (a # -1 /\ b # -1) => (a < b /\ a <= MAX_TICK /\ b <= MAX_TICK)

\* C11: after a load and after any set_loop or set_render_region, the
\* project holds no loop or render region with end <= start or with a bound
\* above 10,000,000 ticks.
C11_RegionsProperAndBounded ==
    project.open =>
        /\ RegionHeldOk(project.loop_start, project.loop_end)
        /\ RegionHeldOk(project.render_start, project.render_end)

\* ---------------------------------------------------------------------
\* Patterns: new_pattern, gen_drums, gen_bass_follow (cli/headless.py)
\* project = [open, ppq, tracks], a track = [patterns, clips], patterns a
\* function from the pattern names to [length, notes]; notes and clips are
\* the numbers of notes and of clips.
\* ---------------------------------------------------------------------

MAX_PATTERNS_PER_TRACK == 128

\* the tracks a script of the pattern commands adds
MaxPatTracks == 1

PatNames == {"a", "b"}

\* the <length_ticks> arguments of a script
LengthArgs ==
    {<<"0">>, <<"-", "1", "0">>, <<"1", ":", "0">>, <<"x">>,
     <<"1", "0", "0", "0", "0", "0", "0">>}

\* the clips a script places on a track
MaxPlaced == 2

\* the notes a script adds to a pattern one by one
MaxAdded == 1

\* the <track> arguments of a script: the tracks it works on, and an
\* index no project has
TrackArgs == (0..(MaxPatTracks - 1)) \cup {MAX_TRACKS}


NoPatterns == [n \in {} |-> 0]

\* Track(name=..., channel=...)
EmptyTrack == [patterns |-> NoPatterns, clips |-> 0]

\* Pattern(name=name, length=length): __post_init__ refuses length <= 0
Pattern(length) ==
    IF length <= 0 THEN ValueError ELSE [length |-> length, notes |-> 0]

\* dict item assignment t.patterns[name] = pat
PutPattern(patterns, name, pat) ==
    [n \in (DOMAIN patterns) \cup {name} |-> IF n = name THEN pat ELSE patterns[n]]

\* gen_drums, style house with density=1.0: the notes the loop over the
\* 16th steps appends (a hat on every step, a kick on s % 4 == 0, a snare
\* on s % 8 == 4)
gen_drums_notes(ppq, length) ==
    LET step == ppq \div 4
        steps == Max(1, length \div step)
    IN  steps + ((steps + 3) \div 4) + ((steps + 3) \div 8)

\* gen_bass_follow with gap_prob=0 turnaround=0: every bar gets the notes of
\* the template the random stream picks (2 or 4 steps), and every
\* cadence_bars-th bar (4 by default) one approach note; the numbers of
\* notes the seeds can give lie between the two returned here
gen_bass_follow_notes(ppq, length) ==
    LET tpbar == ppq * 4
        bars == Max(1, length \div tpbar)
    IN  {2 * bars + (bars \div 4), 4 * bars + (bars \div 4)}

InitPattern ==
    /\ project = [open |-> FALSE, tracks |-> <<>>]
    /\ lastResult = "none"
    /\ TcIdle
    /\ WfIdle
    /\ NtIdle
    /\ JsIdle
    /\ MixIdle
    /\ FpIdle
    /\ GenIdle
    /\ ScriptIdle
    /\ MigIdle
    /\ RenIdle
    /\ EdIdle

\* new_project <name>
PatternNewProject ==
    /\ project' = [open |-> TRUE, ppq |-> 480, tracks |-> <<>>]
    /\ lastResult' = "ok"
    /\ UNCHANGED notSessionVars

\* add_track <name>
PatternAddTrack ==
    /\ project.open
    /\ Len(project.tracks) < MaxPatTracks \/ Len(project.tracks) >= MAX_TRACKS
    /\ IF Len(project.tracks) >= MAX_TRACKS THEN project' = project /\ lastResult' = "error"
       ELSE /\ project' = [project EXCEPT !.tracks = Append(@, EmptyTrack)]
            /\ lastResult' = "ok"
    /\ UNCHANGED notSessionVars

\* new_pattern <track> <name> <length>
NewPattern ==
    /\ project.open
    /\ \E ti \in TrackArgs, name \in PatNames, arg \in LengthArgs :
           LET length == tick(project, arg)
           IN  IF ti >= Len(project.tracks) \/ length.status = "error"
               THEN project' = project /\ lastResult' = "error"
               ELSE LET t == project.tracks[ti + 1]
                    IN  IF Cardinality(DOMAIN t.patterns) >= MAX_PATTERNS_PER_TRACK
                           \/ IsRaised(Pattern(length.ticks))
                        THEN project' = project /\ lastResult' = "error"
                        ELSE /\ project' = [project EXCEPT !.tracks[ti + 1].patterns =
                                                PutPattern(@, name, Pattern(length.ticks))]
                             /\ lastResult' = "ok"
    /\ UNCHANGED notSessionVars

\* the pattern the generators write: a missing one is built by Pattern(...),
\* then the length is assigned and the notes are replaced
GenInto(ti, name, length, notes) ==
    LET t == project.tracks[ti + 1]
    IN  IF name \notin DOMAIN t.patterns
           /\ (Cardinality(DOMAIN t.patterns) >= MAX_PATTERNS_PER_TRACK \/ IsRaised(Pattern(length)))
        THEN project' = project /\ lastResult' = "error"
        ELSE /\ project' = [project EXCEPT !.tracks[ti + 1].patterns =
                                PutPattern(@, name, [length |-> length, notes |-> notes])]
             /\ lastResult' = "ok"

\* gen_drums <track> <pattern> <length_ticks> house density=1.0
GenDrums ==
    /\ project.open
    /\ \E ti \in TrackArgs, name \in PatNames, arg \in LengthArgs :
           LET length == tick(project, arg)
           IN  IF length.status = "error" \/ ti >= Len(project.tracks)
               THEN project' = project /\ lastResult' = "error"
               ELSE GenInto(ti, name, length.ticks, gen_drums_notes(project.ppq, length.ticks))
    /\ UNCHANGED notSessionVars

\* gen_bass_follow <track> <pattern> <length_ticks> [roots=45] gap_prob=0 turnaround=0
GenBassFollow ==
    /\ project.open
    /\ \E ti \in TrackArgs, name \in PatNames, arg \in LengthArgs, roots \in BOOLEAN :
           LET length == tick(project, arg)
           IN  IF length.status = "error" \/ ~roots \/ ti >= Len(project.tracks)
               THEN project' = project /\ lastResult' = "error"
               ELSE \E notes \in gen_bass_follow_notes(project.ppq, length.ticks) :
                        GenInto(ti, name, length.ticks, notes)
    /\ UNCHANGED notSessionVars

\* the tracks of a project file: their number, and on each the pattern a
\* (or none), its length and notes, and the clips
FilePatternTracks ==
    {[n |-> n, pattern |-> pat, length |-> length, notes |-> notes, clips |-> clips] :
        n \in {2, MAX_TRACKS + 1}, pat \in BOOLEAN, length \in {0, 480},
        notes \in {0, MAX_NOTES_PER_PATTERN + 1}, clips \in {0, MAX_CLIPS_PER_TRACK + 1}}

\* validate_and_migrate_project, the caps on the counts of a loaded project
validate_counts(ppq, tracks) ==
    LET capped == SubSeq(tracks, 1, Min(Len(tracks), MAX_TRACKS))
        Pat(pat) == [length |-> clamp(IF pat.length <= 0 THEN ppq * 4 ELSE pat.length, 1, MAX_TICK),
                     notes |-> Min(pat.notes, MAX_NOTES_PER_PATTERN)]
    IN  [i \in 1..Len(capped) |->
             [patterns |-> [name \in DOMAIN capped[i].patterns |-> Pat(capped[i].patterns[name])],
              clips |-> Min(capped[i].clips, MAX_CLIPS_PER_TRACK)]]

\* open_project <path>: Project.from_dict builds the patterns with
\* Pattern(...), then load_project validates the project
PatternOpenProject ==
    /\ \E f \in FilePatternTracks :
           IF f.pattern /\ IsRaised(Pattern(f.length))
           THEN project' = project /\ lastResult' = "error"
           ELSE /\ project' =
                       [open |-> TRUE, ppq |-> 480,
                        tracks |-> validate_counts(480,
                            [i \in 1..f.n |->
                                 [patterns |-> IF f.pattern
                                               THEN PutPattern(NoPatterns, "a",
                                                               [length |-> f.length, notes |-> f.notes])
                                               ELSE NoPatterns,
                                  clips |-> f.clips]])]
                /\ lastResult' = "ok"
    /\ UNCHANGED notSessionVars

\* place_pattern <track> <pattern> <start> [repeats]
PlacePattern ==
    /\ project.open
    /\ \E ti \in TrackArgs, arg \in {<<"0">>, <<"x">>} :
           LET start == tick(project, arg)
           IN  IF ti >= Len(project.tracks) THEN project' = project /\ lastResult' = "error"
               ELSE /\ \/ project.tracks[ti + 1].clips < MaxPlaced
                       \/ project.tracks[ti + 1].clips >= MAX_CLIPS_PER_TRACK
                    /\ IF project.tracks[ti + 1].clips >= MAX_CLIPS_PER_TRACK \/ start.status = "error"
                       THEN project' = project /\ lastResult' = "error"
                       ELSE /\ project' = [project EXCEPT !.tracks[ti + 1].clips = @ + 1]
                            /\ lastResult' = "ok"
    /\ UNCHANGED notSessionVars

\* add_note_pat <track> <pattern> 60 0 10
AddNotePat ==
    /\ project.open
    /\ \E ti \in TrackArgs, name \in PatNames :
           IF ti >= Len(project.tracks) THEN project' = project /\ lastResult' = "error"
           ELSE IF name \notin DOMAIN project.tracks[ti + 1].patterns
           THEN project' = project /\ lastResult' = "error"
           ELSE LET pat == project.tracks[ti + 1].patterns[name]
                IN  /\ pat.notes < MaxAdded \/ pat.notes >= MAX_NOTES_PER_PATTERN
                    /\ IF pat.notes >= MAX_NOTES_PER_PATTERN
                       THEN project' = project /\ lastResult' = "error"
                       ELSE /\ project' = [project EXCEPT
                                               !.tracks[ti + 1].patterns[name].notes = @ + 1]
                            /\ lastResult' = "ok"
    /\ UNCHANGED notSessionVars

NextPattern ==
    \/ PatternNewProject
    \/ PatternOpenProject
    \/ PatternAddTrack
    \/ NewPattern
    \/ GenDrums
    \/ GenBassFollow
    \/ PlacePattern
    \/ AddNotePat

SpecPattern == InitPattern /\ [][NextPattern]_vars

\* C12: no sequence of new_pattern, gen_drums and gen_bass_follow commands
\* leaves a pattern whose length is <= 0 in the project.
C12_NoPatternOfLengthZero ==
    \A i \in 1..Len(project.tracks) :
        \A n \in DOMAIN project.tracks[i].patterns : project.tracks[i].patterns[n].length > 0

\* C20: on load and after any sequence of headless commands the project has
\* at most 16 tracks, and no track has more than 128 patterns, more than
\* 2048 clips, or a pattern with more than 8192 notes.
C20_HardLimits ==
    /\ Len(project.tracks) <= MAX_TRACKS
    /\ \A i \in 1..Len(project.tracks) :
           /\ Cardinality(DOMAIN project.tracks[i].patterns) <= MAX_PATTERNS_PER_TRACK
           /\ project.tracks[i].clips <= MAX_CLIPS_PER_TRACK
           /\ \A n \in DOMAIN project.tracks[i].patterns :
                  project.tracks[i].patterns[n].notes <= MAX_NOTES_PER_PATTERN

\* ---------------------------------------------------------------------
\* Sampler mode and sample packs (util/validate.py, cli/headless.py)
\* project = [open, tracks], a track = [sampler, sampler_preset, sample_pack];
\* None is "none" for the sampler, [none |-> TRUE] for a string of a pack
\* ---------------------------------------------------------------------

\* the tracks a project file of the sampler commands holds
MaxSamplerTracks == 2

NoneStr == [none |-> TRUE, chars |-> <<>>]
Str(s) == [none |-> FALSE, chars |-> s]

\* str(x).strip() or None
StripOrNone(x) == IF x.none \/ Strip(x.chars) = <<>> THEN NoneStr ELSE Str(Strip(x.chars))

NoPack == [set |-> FALSE, id |-> NoneStr, path |-> NoneStr]

\* the id and path strings of a sample_pack object of a project file
PackStrings == {NoneStr, Str(<<" ">>), Str(<<"k">>)}

\* the sample_pack values Track.from_dict reads from a project file
FilePacks ==
    {NoPack} \cup {[set |-> TRUE, id |-> i, path |-> NoneStr] : i \in PackStrings}
             \cup {[set |-> TRUE, id |-> NoneStr, path |-> Str(<<"k">>)]}

\* the sampler values of a project file
FileSamplers == {"none", "808", "piano"}

SamplerPresets == {"default", "x"}

\* validate_and_migrate_project, the sampler and sample pack of one track
validate_sample_pack(t) ==
    LET sampler == IF t.sampler \in {"drums", "808"} THEN t.sampler ELSE "none"
        id == StripOrNone(t.sample_pack.id)
        path == StripOrNone(t.sample_pack.path)
    IN  IF ~t.sample_pack.set \/ (id.none /\ path.none)
        THEN [t EXCEPT !.sampler = sampler, !.sample_pack = NoPack]
        ELSE [t EXCEPT !.sampler = "drums",
                       !.sample_pack = [set |-> TRUE, id |-> id, path |-> path]]

InitSampler ==
    /\ project = [open |-> FALSE, tracks |-> <<>>]
    /\ lastResult = "none"
    /\ TcIdle
    /\ WfIdle
    /\ NtIdle
    /\ JsIdle
    /\ MixIdle
    /\ FpIdle
    /\ GenIdle
    /\ ScriptIdle
    /\ MigIdle
    /\ RenIdle
    /\ EdIdle

FileSamplerTracks ==
    [sampler : FileSamplers, sampler_preset : {"default"}, sample_pack : FilePacks]

\* open_project <path>: load_project validates what Project.from_dict built
SamplerOpenProject ==
    /\ \E n \in 1..MaxSamplerTracks : \E ts \in [1..n -> FileSamplerTracks] :
           project' = [open |-> TRUE,
                       tracks |-> List([i \in 1..n |-> validate_sample_pack(ts[i])])]
    /\ lastResult' = "ok"
    /\ UNCHANGED notSessionVars

\* set_sampler <track_index> <drums|808|none>
SetSampler ==
    /\ project.open
    /\ \E idx \in 0..MaxSamplerTracks, mode \in {"none", "off", "0", "drums", "808", "piano"} :
           IF mode \notin {"none", "off", "0", "drums", "808"} \/ idx >= Len(project.tracks)
           THEN project' = project /\ lastResult' = "error"
           ELSE /\ project' = [project EXCEPT !.tracks[idx + 1].sampler =
                                   IF mode \in {"none", "off", "0"} THEN "none" ELSE mode]
                /\ lastResult' = "ok"
    /\ UNCHANGED notSessionVars

\* set_kit <track_index> <preset>
SetKit ==
    /\ project.open
    /\ \E idx \in 0..MaxSamplerTracks, preset \in SamplerPresets :
           IF idx >= Len(project.tracks) THEN project' = project /\ lastResult' = "error"
           ELSE /\ project' = [project EXCEPT !.tracks[idx + 1].sampler = "drums",
                                              !.tracks[idx + 1].sampler_preset = preset]
                /\ lastResult' = "ok"
    /\ UNCHANGED notSessionVars

\* set_808 <track_index> <preset>
Set808 ==
    /\ project.open
    /\ \E idx \in 0..MaxSamplerTracks, preset \in SamplerPresets :
           IF idx >= Len(project.tracks) THEN project' = project /\ lastResult' = "error"
           ELSE /\ project' = [project EXCEPT !.tracks[idx + 1].sampler = "808",
                                              !.tracks[idx + 1].sampler_preset = preset]
                /\ lastResult' = "ok"
    /\ UNCHANGED notSessionVars

NextSampler ==
    \/ SamplerOpenProject
    \/ SetSampler
    \/ SetKit
    \/ Set808

SpecSampler == InitSampler /\ [][NextSampler]_vars

\* C13: every track that has sample_pack set has sampler == "drums", after
\* validation and after any later set_sampler, set_808 and set_kit commands.
C13_SamplePackForcesDrums ==
    \A i \in 1..Len(project.tracks) :
        project.tracks[i].sample_pack.set => project.tracks[i].sampler = "drums"

\* ---------------------------------------------------------------------
\* The ffmpeg filter graph of a mix (audio/mix_engine.py mix_project_wav)
\* A stream label is a sequence of the pieces its f-string joins, so that
\* two labels are equal exactly when their texts are; a filter is
\* [ins, outs], the labels it consumes and the labels it defines.
\* ---------------------------------------------------------------------

\* the stems (tracks) of a mixed project
MaxStems == 3

\* the rules of the sidechain list of a MixSpec
MaxRules == 2

\* the input stream specifier [i:a]
Input(i) == <<"input", ToString(i)>>

IsLabel(l) == l[1] # "input"

Filter(ins, outs) == [ins |-> ins, outs |-> outs]

\* the label t{i}
T(i) == <<"t", ToString(i)>>

\* classify_track(name), for names that hold one token at most
classify_track(name) ==
    IF name \in {"drums", "kick"} THEN [role |-> "drums", is_drums |-> TRUE, is_kick |-> name = "kick"]
    ELSE IF name \in {"bass", "sub"} THEN [role |-> "bass", is_drums |-> FALSE, is_kick |-> FALSE]
    ELSE IF name = "pad" THEN [role |-> "pad", is_drums |-> FALSE, is_kick |-> FALSE]
    ELSE [role |-> "music", is_drums |-> FALSE, is_kick |-> FALSE]

\* pick_kick_source_index(tracks): the first kick track, else the first
\* drums track, else None (-1)
pick_kick_source_index(names) ==
    LET kicks == {i \in 1..Len(names) : classify_track(names[i]).is_kick}
        drums == {i \in 1..Len(names) : classify_track(names[i]).is_drums}
    IN  IF kicks # {} THEN SetMin(kicks) - 1
        ELSE IF drums # {} THEN SetMin(drums) - 1
        ELSE -1

\* build_mix_spec(project, preset)["sidechain"]: one rule per target track
\* (sidechain.targets of the preset: ["bass"] by default), all with the
\* kick source as src
RECURSIVE build_sidechain(_, _, _, _)
build_sidechain(names, targets, use_src_role, k) ==
    IF pick_kick_source_index(names) = -1 \/ k = 0 THEN <<>>
    ELSE LET rest == build_sidechain(names, targets, use_src_role, k - 1)
         IN  IF classify_track(names[k]).role \in targets
             THEN Append(rest, [src |-> pick_kick_source_index(names), dst |-> k - 1,
                                src_role |-> IF use_src_role THEN "kick" ELSE "none"])
             ELSE rest

\* the per-track stage: the track chain, then the saturation split
TrackFilters(i, sat) ==
    LET I == ToString(i)
    IN  <<Filter(<<Input(i)>>, <<T(i)>>)>>
        \o (IF i \in sat
            THEN <<Filter(<<T(i)>>, <<<<"sat", I, "_dry">>, <<"sat", I, "_wet">>>>),
                   Filter(<<<<"sat", I, "_wet">>>>, <<<<"sat", I, "_wet2">>>>),
                   Filter(<<<<"sat", I, "_dry">>>>, <<<<"sat", I, "_dryv">>>>),
                   Filter(<<<<"sat", I, "_wet2">>>>, <<<<"sat", I, "_wetv">>>>),
                   Filter(<<<<"sat", I, "_dryv">>, <<"sat", I, "_wetv">>>>, <<T(i) \o <<"_sat">>>>)>>
            ELSE <<>>)

TrackLabel(i, sat) == IF i \in sat THEN T(i) \o <<"_sat">> ELSE T(i)

\* sc_by_dst: the valid rules keyed by dst, in the order a dict keeps
\* them (a later rule for the same dst replaces the earlier one in place)
RECURSIVE sc_by_dst(_, _)
sc_by_dst(rules, n) ==
    IF Len(rules) = 0 THEN <<>>
    ELSE LET prev == sc_by_dst(SubSeq(rules, 1, Len(rules) - 1), n)
             sc == rules[Len(rules)]
         IN  IF sc.dst < 0 \/ sc.src < 0 \/ sc.dst >= n \/ sc.src >= n THEN prev
             ELSE IF \E k \in 1..Len(prev) : prev[k].dst = sc.dst
             THEN [k \in 1..Len(prev) |-> IF prev[k].dst = sc.dst THEN sc ELSE prev[k]]
             ELSE Append(prev, sc)

\* role_keys, as the list of (src, role) keys in the order of their extra
\* ffmpeg inputs; the render of a key wav may fail, and then no key is kept
RECURSIVE role_keys(_, _)
role_keys(scs, keyRender) ==
    IF Len(scs) = 0 \/ ~keyRender THEN <<>>
    ELSE LET prev == role_keys(SubSeq(scs, 1, Len(scs) - 1), keyRender)
             sc == scs[Len(scs)]
             key == <<sc.src, sc.src_role>>
         IN  IF sc.src_role = "none" \/ key \in Range(prev) THEN prev ELSE Append(prev, key)

\* the index of the extra ffmpeg input of a key: len(stems) + its position
KeyInput(keys, key, n) == n + (CHOOSE k \in 1..Len(keys) : keys[k] = key) - 1

\* key_srcs: the source tracks that are split into a dry and a key stream
key_srcs(scs, keys) ==
    {scs[k].src : k \in {j \in 1..Len(scs) :
                             ~(scs[j].src_role # "none" /\ <<scs[j].src, scs[j].src_role>> \in Range(keys))}}

\* the asplit filters of the key sources, in the order of sorted(key_srcs)
SplitFilters(labels, srcs, n) ==
    Concat([i \in 1..n |-> IF (i - 1) \in srcs
                            THEN <<Filter(<<labels[i]>>, <<labels[i] \o <<"_dry">>, labels[i] \o <<"_key">>>>)>>
                            ELSE <<>>])

\* the loop over sc_by_dst that appends the sidechaincompress filters:
\* [fc, labels] after the first k rules
RECURSIVE SidechainStage(_, _, _, _, _, _, _)
SidechainStage(scs, k, keys, key_labels, srcs, acc, n) ==
    IF k = 0 THEN acc
    ELSE LET ScStep(prev) ==
                 LET sc == scs[k]
                     key == <<sc.src, sc.src_role>>
                     main_lbl == prev.labels[sc.dst + 1]
                     external == sc.src_role # "none" /\ key \in Range(keys)
                     key_lbl == IF external THEN <<"key_", ToString(sc.src), "_", sc.src_role>>
                                ELSE IF sc.src \in srcs THEN key_labels[sc.src + 1]
                                ELSE prev.labels[sc.src + 1]
                     out_lbl == T(sc.dst) \o <<"_sc">>
                 IN  [fc |-> prev.fc
                             \o (IF external THEN <<Filter(<<Input(KeyInput(keys, key, n))>>, <<key_lbl>>)>>
                                 ELSE <<>>)
                             \o <<Filter(<<main_lbl, key_lbl>>, <<out_lbl>>)>>,
                      labels |-> [prev.labels EXCEPT ![sc.dst + 1] = out_lbl]]
         IN  ScStep(SidechainStage(scs, k - 1, keys, key_labels, srcs, acc, n))

\* the sends of one track: a split into the dry stream and the taps
SendFilters(i, base_lbl, r, d) ==
    LET I == ToString(i)
    IN  IF r \/ d
        THEN <<Filter(<<base_lbl>>, <<<<"dry", I>>>> \o (IF r THEN <<<<"tapR", I>>>> ELSE <<>>)
                                                      \o (IF d THEN <<<<"tapD", I>>>> ELSE <<>>))>>
             \o (IF r THEN <<Filter(<<<<"tapR", I>>>>, <<<<"sr", I>>>>)>> ELSE <<>>)
             \o (IF d THEN <<Filter(<<<<"tapD", I>>>>, <<<<"sd", I>>>>)>> ELSE <<>>)
        ELSE <<>>

DryLabel(i, base_lbl, r, d) == IF r \/ d THEN <<"dry", ToString(i)>> ELSE base_lbl

\* mono_below_filter between [in_lbl] and [out_lbl]
mono_below_filter(in_lbl, low_label, high_label, out_lbl) ==
    <<Filter(<<in_lbl>>, <<low_label, high_label>>),
      Filter(<<low_label>>, <<low_label \o <<"m">>>>),
      Filter(<<high_label>>, <<high_label \o <<"f">>>>),
      Filter(<<low_label \o <<"m">>, high_label \o <<"f">>>>, <<out_lbl>>)>>

\* sorted(bus_members.items()) over the bus names of the model
BusOrder == <<"drums", "music">>

BusLabel(bus, mono, fx) ==
    <<"bus_", bus>> \o (IF mono THEN <<"_mono">> ELSE <<>>) \o (IF fx THEN <<"_fx">> ELSE <<>>)

\* the filters of one bus: the amix of its members, mono-below, bus FX
BusFilters(bus, members, mono, fx) ==
    IF Len(members) = 0 THEN <<>>
    ELSE <<Filter(members, <<<<"bus_", bus>>>>)>>
         \o (IF mono
             THEN mono_below_filter(<<"bus_", bus>>, <<"lo_", bus>>, <<"hi_", bus>>, <<"bus_", bus, "_mono">>)
             ELSE <<>>)
         \o (IF fx THEN <<Filter(<<BusLabel(bus, mono, FALSE)>>, <<BusLabel(bus, mono, TRUE)>>)>> ELSE <<>>)

\* the members of a bus: the dry streams of its tracks, in track order
BusMembers(bus, busOf, drys) ==
    Concat([i \in 1..Len(drys) |-> IF busOf[i] = bus THEN <<drys[i]>> ELSE <<>>])

\* the sum of busses and returns, the master chain and the final limiter
MasterFilters(mix_inputs, mono, fx) ==
    <<Filter(mix_inputs, <<<<"mix">>>>)>>
    \o (IF mono THEN mono_below_filter(<<"mix">>, <<"lo_m">>, <<"hi_m">>, <<"mix_mono">>) ELSE <<>>)
    \o (IF fx THEN <<Filter(<<IF mono THEN <<"mix_mono">> ELSE <<"mix">>>>, <<<<"mix2">>>>)>> ELSE <<>>)
    \o <<Filter(<<IF fx THEN <<"mix2">> ELSE IF mono THEN <<"mix_mono">> ELSE <<"mix">>>>, <<<<"out">>>>)>>

\* mix_project_wav: the filters of -filter_complex, in order
filter_complex(m) ==
    LET n == m.n
        labels0 == List([i \in 1..n |-> TrackLabel(i - 1, m.sat)])
        fc0 == Concat([i \in 1..n |-> TrackFilters(i - 1, m.sat)])
        scs == sc_by_dst(m.sidechain, n)
        keys == role_keys(scs, m.keyRender)
        srcs == key_srcs(scs, keys)
        key_labels == List([i \in 1..n |-> labels0[i] \o <<"_key">>])
        labels1 == List([i \in 1..n |-> IF (i - 1) \in srcs THEN labels0[i] \o <<"_dry">> ELSE labels0[i]])
        Rest(sc) ==
            LET drys == List([i \in 1..n |-> DryLabel(i - 1, sc.labels[i], (i - 1) \in m.reverb, (i - 1) \in m.delay)])
                sends == Concat([i \in 1..n |-> SendFilters(i - 1, sc.labels[i], (i - 1) \in m.reverb, (i - 1) \in m.delay)])
                send_reverb == Concat([i \in 1..n |-> IF (i - 1) \in m.reverb THEN <<<<"sr", ToString(i - 1)>>>> ELSE <<>>])
                send_delay == Concat([i \in 1..n |-> IF (i - 1) \in m.delay THEN <<<<"sd", ToString(i - 1)>>>> ELSE <<>>])
                returns == (IF Len(send_reverb) > 0 THEN <<Filter(send_reverb, <<<<"rev">>>>)>> ELSE <<>>)
                           \o (IF Len(send_delay) > 0 THEN <<Filter(send_delay, <<<<"dly">>>>)>> ELSE <<>>)
                ret_streams == (IF Len(send_reverb) > 0 THEN <<<<"rev">>>> ELSE <<>>)
                               \o (IF Len(send_delay) > 0 THEN <<<<"dly">>>> ELSE <<>>)
                busses == Concat([b \in 1..Len(BusOrder) |->
                              BusFilters(BusOrder[b], BusMembers(BusOrder[b], m.bus, drys),
                                         BusOrder[b] \in m.busMono, BusOrder[b] \in m.busFx)])
                bus_outs == Concat([b \in 1..Len(BusOrder) |->
                                IF Len(BusMembers(BusOrder[b], m.bus, drys)) = 0 THEN <<>>
                                ELSE <<BusLabel(BusOrder[b], BusOrder[b] \in m.busMono, BusOrder[b] \in m.busFx)>>])
            IN  sc.fc \o sends \o returns \o busses
                \o MasterFilters(bus_outs \o ret_streams, m.masterMono, m.masterFx)
    IN  Rest(SidechainStage(scs, Len(scs), keys, key_labels, srcs,
                            [fc |-> fc0 \o SplitFilters(labels0, srcs, n), labels |-> labels1], n))

\* the track names of a project mix_prepare builds the mix for
MixTrackNames == {"kick", "drums", "bass", "sub", "pad"}

\* the sidechain rules a MixSpec file may hold
SidechainRules(n) ==
    [src : 0..(n - 1), dst : 0..(n - 1), src_role : {"none", "kick"}]
    \cup {[src |-> 0, dst |-> -1, src_role |-> "none"]}

\* bus routing and bus/master processing of a mix
MixRoutings(n) ==
    LET music == [i \in 1..n |-> "music"]
        split == [i \in 1..n |-> IF i = 1 THEN "drums" ELSE "music"]
    IN  {[bus |-> music, busMono |-> {}, busFx |-> {}, masterMono |-> FALSE, masterFx |-> FALSE],
         [bus |-> split, busMono |-> {"music"}, busFx |-> {"music"}, masterMono |-> TRUE, masterFx |-> TRUE],
         [bus |-> music, busMono |-> {"music"}, busFx |-> {}, masterMono |-> FALSE, masterFx |-> TRUE],
         [bus |-> split, busMono |-> {}, busFx |-> {"drums"}, masterMono |-> TRUE, masterFx |-> FALSE]}

\* what does not depend on the sidechain list: saturation, sends, routing
MixOptions(n) ==
    {[n |-> n, sat |-> sat, reverb |-> reverb, delay |-> delay, keyRender |-> keyRender,
      bus |-> r.bus, busMono |-> r.busMono, busFx |-> r.busFx,
      masterMono |-> r.masterMono, masterFx |-> r.masterFx] :
        sat \in {{}, {0}}, reverb \in {{}, 0..(n - 1)}, delay \in {{}, {0}},
        keyRender \in BOOLEAN, r \in MixRoutings(n)}

WithSidechain(o, sidechain) ==
    [n |-> o.n, sat |-> o.sat, reverb |-> o.reverb, delay |-> o.delay, bus |-> o.bus,
     busMono |-> o.busMono, busFx |-> o.busFx, masterMono |-> o.masterMono,
     masterFx |-> o.masterFx, keyRender |-> o.keyRender, sidechain |-> sidechain]

\* a MixSpec written by hand, or the one build_mix_spec makes for the
\* tracks of the project (targets bass, or bass and pad)
InitMix ==
    /\ \E n \in 1..MaxStems : \E o \in MixOptions(n) :
           \/ \E sidechain \in SeqsUpTo(SidechainRules(n), MaxRules) :
                  mixIn = WithSidechain(o, sidechain)
           \/ \E names \in [1..n -> MixTrackNames], targets \in {{"bass"}, {"bass", "pad"}},
                 use_src_role \in BOOLEAN :
                  mixIn = WithSidechain(o, build_sidechain(names, targets, use_src_role, n))
    /\ mixOut = [status |-> "none"]
    /\ SessionIdle
    /\ TcIdle
    /\ WfIdle
    /\ NtIdle
    /\ JsIdle
    /\ FpIdle
    /\ GenIdle
    /\ ScriptIdle
    /\ MigIdle
    /\ RenIdle
    /\ EdIdle

\* mix_project_wav(project, mix=...): the filter graph handed to ffmpeg
MixProjectWav ==
    /\ mixOut.status = "none"
    /\ mixOut' = [status |-> "done", fc |-> filter_complex(mixIn)]
    /\ UNCHANGED mixIn
    /\ UNCHANGED notMixVars

NextMix == MixProjectWav

SpecMix == InitMix /\ [][NextMix]_vars

\* the labels of a graph, and how often one is defined and consumed
GraphLabels(fc) ==
    {l \in UNION {Range(fc[k].ins) \cup Range(fc[k].outs) : k \in 1..Len(fc)} : IsLabel(l)}

Defined(fc, l) ==
    Cardinality(UNION {{<<k, j>> : j \in {i \in 1..Len(fc[k].outs) : fc[k].outs[i] = l}} : k \in 1..Len(fc)})

Consumed(fc, l) ==
    Cardinality(UNION {{<<k, j>> : j \in {i \in 1..Len(fc[k].ins) : fc[k].ins[i] = l}} : k \in 1..Len(fc)})

\* C14: in the filter graph compiled from any MixSpec every stream label is
\* defined exactly once and consumed at most once, also when several
\* sidechain rules share a src track (and src_role).
C14_LabelsUnique ==
    mixOut.status = "done" =>
        \A l \in GraphLabels(mixOut.fc) :
            Defined(mixOut.fc, l) = 1 /\ Consumed(mixOut.fc, l) <= 1

\* ---------------------------------------------------------------------
\* Novelty fingerprint (prompt/similarity.py)
\* A histogram holds its counts; a cosine and a similarity are in
\* thousandths, rounded down.
\* ---------------------------------------------------------------------

\* the notes of a fingerprinted project
MaxFpNotes == 2

\* the integer square root, by Newton's iteration downwards from r
RECURSIVE ISqrtFrom(_, _)
ISqrtFrom(x, r) ==
    LET next == (r + (x \div r)) \div 2
    IN  IF next >= r THEN r ELSE ISqrtFrom(x, next)

ISqrt(x) == IF x = 0 THEN 0 ELSE ISqrtFrom(x, x)

\* the events fingerprint_project counts for one track: (ti, start, pitch,
\* velocity) of the notes that are not muted and have a chance above 0; a
\* track with patterns and clips gives the notes of its clips, repeated
FpKept(notes) == SelectSeq(notes, LAMBDA n : ~n.mute /\ n.chance > 0)

FpTrackEvents(ti, t) ==
    LET Ev(n, base) == [ti |-> ti, start |-> base + n.start, pitch |-> n.pitch, velocity |-> n.velocity]
    IN  IF t.arranged /\ Len(t.clips) > 0
        THEN Concat([c \in 1..Len(t.clips) |->
                 Concat([rep \in 1..Max(1, t.clips[c].repeats) |->
                     LET kept == FpKept(t.pattern.notes)
                     IN  [k \in 1..Len(kept) |->
                              Ev(kept[k], t.clips[c].start + (rep - 1) * t.pattern.length)]])])
        ELSE LET kept == FpKept(t.notes)
             IN  [k \in 1..Len(kept) |-> Ev(kept[k], 0)]

FpEvents(proj) == Concat([i \in 1..Len(proj.tracks) |-> FpTrackEvents(i - 1, proj.tracks[i])])

\* the histogram of a list of bin indexes over the bins 0..(size - 1)
Hist(idx, size) == [b \in 0..(size - 1) |-> Cardinality({k \in 1..Len(idx) : idx[k] = b})]

\* (step, pitch class) of an event, as one number
StepPc(start, pitch, sixteenth) == ((start \div sixteenth) % 16) * 12 + (pitch % 12)

\* fingerprint_project(proj); & 63 keeps the low six bits, so the two
\* multipliers 1315423911 and 2654435761 enter by their residues mod 64
fingerprint_project(proj) ==
    LET sixteenth == Max(1, proj.ppq \div 4)
        Body(ev) ==
            LET n == Len(ev)
                sorted == StableSort(ev, List([k \in 1..n |-> ev[k].start]))
                vel(k) == clamp(IF ev[k].velocity = 0 THEN 100 ELSE ev[k].velocity, 1, 127)
            IN  [pitch_class_hist |-> Hist(List([k \in 1..n |-> ev[k].pitch % 12]), 12),
                 step_hist |-> Hist(List([k \in 1..n |-> (ev[k].start \div sixteenth) % 16]), 16),
                 interval_hist |->
                     Hist(List([k \in 1..(n - 1) |->
                              clamp(sorted[k + 1].pitch - sorted[k].pitch, -12, 12) + 12]), 25),
                 velocity_hist |-> Hist(List([k \in 1..n |-> Min(7, (vel(k) - 1) \div 16)]), 8),
                 event_hash_hist |->
                     Hist(List([k \in 1..(n - 1) |->
                              (StepPc(sorted[k].start, sorted[k].pitch, sixteenth) * (1315423911 % 64)
                               + StepPc(sorted[k + 1].start, sorted[k + 1].pitch, sixteenth)
                                 * (((26544 % 64) * (100000 % 64) + 35761) % 64)) % 64]), 64),
                 track_event_hash_hist |->
                     Hist(List([k \in 1..n |->
                              (ev[k].ti * (1315423911 % 64)
                               + StepPc(ev[k].start, ev[k].pitch, sixteenth)) % 64]), 64)]
    IN  Body(FpEvents(proj))

\* sum(f[0..k])
RECURSIVE SumTo(_, _)
SumTo(f, k) == IF k < 0 THEN 0 ELSE f[k] + SumTo(f, k - 1)

\* sum(x * y for x, y in zip(a, b)) over the counts
Dot(a, b) == SumTo([i \in DOMAIN a |-> a[i] * b[i]], Cardinality(DOMAIN a) - 1)

\* _cos(_normalize(a), _normalize(b)): 0 when one of the norms is 0
cos(a, b) ==
    LET Cosine(dot, na, nb) ==
            IF na = 0 \/ nb = 0 THEN 0 ELSE ISqrt((1000000 * dot * dot) \div (na * nb))
    IN  Cosine(Dot(a, b), Dot(a, a), Dot(b, b))

\* project_similarity(a, b): the mean of the six cosines, clamped to [0, 1]
project_similarity(a, b) ==
    LET Mean(fa, fb) ==
            (cos(fa.pitch_class_hist, fb.pitch_class_hist) + cos(fa.step_hist, fb.step_hist)
             + cos(fa.interval_hist, fb.interval_hist) + cos(fa.velocity_hist, fb.velocity_hist)
             + cos(fa.event_hash_hist, fb.event_hash_hist)
             + cos(fa.track_event_hash_hist, fb.track_event_hash_hist)) \div 6
    IN  Max(0, Min(1000, Mean(fingerprint_project(a), fingerprint_project(b))))

\* the notes of the fingerprinted projects
FpNotes ==
    LET FpNote(s, p, mute, chance) ==
            [start |-> s, pitch |-> p, velocity |-> 100, mute |-> mute, chance |-> chance]
    IN  {FpNote(0, 60, FALSE, 100), FpNote(120, 61, FALSE, 100),
         FpNote(0, 60, TRUE, 100), FpNote(120, 60, FALSE, 0)}

\* the fingerprinted projects: linear notes on one track, on the second of
\* two tracks, or in a pattern that a clip plays twice
FpProjects ==
    LET Linear(notes) == [notes |-> notes, arranged |-> FALSE,
                          pattern |-> [length |-> 480, notes |-> <<>>], clips |-> <<>>]
        Arranged(notes) == [notes |-> <<>>, arranged |-> TRUE,
                            pattern |-> [length |-> 480, notes |-> notes],
                            clips |-> <<[start |-> 0, repeats |-> 2]>>]
    IN  UNION {{[ppq |-> 480, tracks |-> <<Linear(notes)>>],
                [ppq |-> 480, tracks |-> <<Linear(<<>>), Linear(notes)>>],
                [ppq |-> 480, tracks |-> <<Arranged(notes)>>]} :
                  notes \in SeqsUpTo(FpNotes, MaxFpNotes)}

InitFp ==
    /\ \E a, b \in FpProjects : fpIn = [a |-> a, b |-> b]
    /\ fpOut = [status |-> "none"]
    /\ SessionIdle
    /\ TcIdle
    /\ WfIdle
    /\ NtIdle
    /\ JsIdle
    /\ MixIdle
    /\ GenIdle
    /\ ScriptIdle
    /\ MigIdle
    /\ RenIdle
    /\ EdIdle

\* project_similarity on the two projects, both ways and each with itself
ProjectSimilarity ==
    /\ fpOut.status = "none"
    /\ fpOut' = [status |-> "done",
                 ab |-> project_similarity(fpIn.a, fpIn.b),
                 ba |-> project_similarity(fpIn.b, fpIn.a),
                 aa |-> project_similarity(fpIn.a, fpIn.a)]
    /\ UNCHANGED fpIn
    /\ UNCHANGED notFpVars

NextFp == ProjectSimilarity

SpecFp == InitFp /\ [][NextFp]_vars

\* C15: fingerprint similarity is symmetric, within [0, 1], and at least
\* 0.999 for every project with itself (an empty project and a project
\* with a single note included).
C15_SimilaritySymmetricBoundedReflexive ==
    fpOut.status = "done" =>
        /\ fpOut.ab = fpOut.ba
        /\ 0 <= fpOut.ab /\ fpOut.ab <= 1000
        /\ fpOut.aa >= 999

\* ---------------------------------------------------------------------
\* The generators (genre_packs/pipeline.py, stylepacks/compile.py,
\* stylepacks/run.py).  An attempt is named by its index; None is -1; a
\* similarity is in thousandths, a score in hundredths.
\* ---------------------------------------------------------------------

\* the attempts a generator run may make
MaxAttempts == 2

AcceptanceFailure == [raised |-> "AcceptanceFailure"]
RuntimeError == [raised |-> "RuntimeError"]

\* generate_from_genre_pack: the loop from attempt on; base[k + 1] is the
\* project pack.generator(seed, k, out_prefix) builds and what pack.accept
\* makes of it
RECURSIVE GenreLoop(_, _, _, _, _, _, _)
GenreLoop(attempt, prev, similarities, chosen_script, max_attempts, max_similarity, base) ==
    LET Result(script, sims) ==
            [script |-> script, attempts |-> Max(1, max_attempts), similarities |-> sims]
    IN  IF attempt >= Max(1, max_attempts) THEN Result(chosen_script, similarities)
        ELSE IF ~base[attempt + 1].accepted THEN AcceptanceFailure
        ELSE IF prev = -1
        THEN IF max_similarity = -1 THEN Result(attempt, similarities)
             ELSE GenreLoop(attempt + 1, attempt, similarities, attempt,
                            max_attempts, max_similarity, base)
        ELSE LET Compare(sim) ==
                     IF sim <= max_similarity THEN Result(attempt, Append(similarities, sim))
                     ELSE GenreLoop(attempt + 1, attempt, Append(similarities, sim), attempt,
                                    max_attempts, max_similarity, base)
             IN  Compare(project_similarity(base[prev + 1].proj, base[attempt + 1].proj))

generate_from_genre_pack(max_attempts, max_similarity, base) ==
    GenreLoop(0, -1, <<>>, -1, max_attempts, max_similarity, base)

\* compile_to_script(spec): the base script of the genre pack, post-processed
compile_to_script(max_attempts, max_similarity, base) ==
    LET Post(generated) ==
            IF IsRaised(generated) THEN generated ELSE [script |-> generated.script]
    IN  Post(generate_from_genre_pack(max_attempts, max_similarity, base))

\* the fields of the dataclass AttemptReport
AttemptReportFields ==
    {"attempt", "seed", "knobs", "acceptance_ok", "acceptance_errors", "similarity_to_prev",
     "spectral", "score", "chosen"}

\* AttemptReport(**fields): an unknown keyword is a TypeError
AttemptReport(fields) ==
    IF DOMAIN fields \subseteq AttemptReportFields
    THEN [attempt |-> fields.attempt, acceptance_ok |-> fields.acceptance_ok,
          scored |-> fields.spectral, score |-> fields.score, chosen |-> FALSE]
    ELSE TypeError

\* run_stylepack, after the loop: the chosen attempt is marked, the final
\* script is compiled and rendered, the report is saved
StyleFinish(attempts, best_idx, in) ==
    LET marked == [k \in 1..Len(attempts) |->
                       IF k - 1 = best_idx THEN [attempts[k] EXCEPT !.chosen = TRUE] ELSE attempts[k]]
        final == IF best_idx # -1
                 THEN compile_to_script(in.max_attempts, in.max_similarity, in.base)
                 ELSE [script |-> -1]
    IN  IF IsRaised(final) THEN final
        ELSE [attempts |-> marked, best_attempt |-> best_idx]

\* run_stylepack: the loop from attempt on; runs[k + 1] is what attempt k
\* meets: the verdict of pack.accept on the compiled project, whether the
\* preview audio exists, and the two scores of it
RECURSIVE StyleLoop(_, _, _, _, _)
StyleLoop(attempt, attempts, best_idx, best_score, in) ==
    IF attempt >= in.max_attempts THEN StyleFinish(attempts, best_idx, in)
    ELSE IF IsRaised(compile_to_script(in.max_attempts, in.max_similarity, in.base))
    THEN compile_to_script(in.max_attempts, in.max_similarity, in.base)
    ELSE LET run == in.runs[attempt + 1]
             acceptance_ok == run.accepted
             scored == run.audio
             score == IF run.audio THEN Min(run.spectral, run.sanity) ELSE 0
             report == AttemptReport([attempt |-> attempt, seed |-> attempt, knobs |-> 0,
                                      acceptance_ok |-> acceptance_ok, acceptance_errors |-> 0,
                                      similarity_to_prev |-> 0, spectral |-> scored,
                                      sanity |-> scored, score |-> score])
             better == scored /\ score > best_score /\ acceptance_ok
         IN  IF IsRaised(report) THEN report
             ELSE IF acceptance_ok /\ scored /\ score >= in.score_threshold
             THEN StyleFinish(Append(attempts, report), attempt, in)
             ELSE StyleLoop(attempt + 1, Append(attempts, report),
                            IF better THEN attempt ELSE best_idx,
                            IF better THEN score ELSE best_score, in)

\* run_stylepack(spec, ...): best_score starts at -1.0
run_stylepack(in) == StyleLoop(0, <<>>, -1, -100, in)

\* the projects the pack generator builds
GenProjects ==
    LET Proj(notes) ==
            [ppq |-> 480,
             tracks |-> <<[notes |-> notes, arranged |-> FALSE,
                           pattern |-> [length |-> 480, notes |-> <<>>], clips |-> <<>>]>>]
        N(s, p) == [start |-> s, pitch |-> p, velocity |-> 100, mute |-> FALSE, chance |-> 100]
    IN  {Proj(<<N(0, 60), N(120, 61)>>), Proj(<<N(0, 60), N(120, 60)>>), Proj(<<N(120, 61), N(0, 60)>>)}

InitGen ==
    /\ \E max_attempts \in 1..MaxAttempts, max_similarity \in {-1, 920} :
       \E base \in [1..MaxAttempts -> [proj : GenProjects, accepted : BOOLEAN]],
          runs \in [1..MaxAttempts -> [accepted : BOOLEAN, audio : BOOLEAN,
                                       spectral : {90}, sanity : {20, 90}]] :
           genIn = [max_attempts |-> max_attempts, max_similarity |-> max_similarity,
                    score_threshold |-> 60, base |-> base, runs |-> runs]
    /\ genOut = [status |-> "none"]
    /\ SessionIdle
    /\ TcIdle
    /\ WfIdle
    /\ NtIdle
    /\ JsIdle
    /\ MixIdle
    /\ FpIdle
    /\ ScriptIdle
    /\ MigIdle
    /\ RenIdle
    /\ EdIdle

\* generate_from_genre_pack(pack, max_attempts=..., max_similarity=...)
GenerateFromGenrePack ==
    /\ genOut.status = "none"
    /\ genOut' = [status |-> "done", op |-> "generate_from_genre_pack",
                  result |-> generate_from_genre_pack(genIn.max_attempts, genIn.max_similarity,
                                                      genIn.base)]
    /\ UNCHANGED genIn
    /\ UNCHANGED notGenVars

\* run_stylepack(spec, ...)
RunStylepack ==
    /\ genOut.status = "none"
    /\ genIn.max_similarity # -1
    /\ genOut' = [status |-> "done", op |-> "run_stylepack", result |-> run_stylepack(genIn)]
    /\ UNCHANGED genIn
    /\ UNCHANGED notGenVars

NextGen ==
    \/ GenerateFromGenrePack
    \/ RunStylepack

SpecGen == InitGen /\ [][NextGen]_vars

\* C16: whenever generate_from_genre_pack returns with max_similarity set
\* and at least one similarity recorded, the last recorded similarity is
\* <= max_similarity, for every max_attempts >= 2.
C16_NoveltyEnforced ==
    (/\ genOut.status = "done"
     /\ genOut.op = "generate_from_genre_pack"
     /\ ~IsRaised(genOut.result)
     /\ genIn.max_similarity # -1
     /\ genIn.max_attempts >= 2)
        => \/ Len(genOut.result.similarities) = 0
           \/ genOut.result.similarities[Len(genOut.result.similarities)] <= genIn.max_similarity

\* the attempts of a run_stylepack report with the highest score
BestScoring(attempts) ==
    {k \in 1..Len(attempts) :
         attempts[k].scored /\ \A j \in 1..Len(attempts) :
                                   attempts[j].scored => attempts[j].score <= attempts[k].score}

\* C17: an AcceptanceFailure ends only the current attempt: no generator
\* run ends with it, and run_stylepack returns a report of its attempts in
\* which the best-scoring attempt, when one has a score, is the chosen one.
C17_AcceptanceFailureRetries ==
    genOut.status = "done" =>
        /\ genOut.result # AcceptanceFailure
        /\ genOut.op = "run_stylepack" =>
               /\ ~IsRaised(genOut.result)
               /\ Len(genOut.result.attempts) >= 1
               /\ BestScoring(genOut.result.attempts) # {} =>
                      /\ genOut.result.best_attempt + 1 \in BestScoring(genOut.result.attempts)
                      /\ genOut.result.attempts[genOut.result.best_attempt + 1].chosen

\* an attempt of the run reaches the score threshold
ReachesThreshold(in) ==
    \E k \in 1..in.max_attempts :
        /\ in.runs[k].accepted
        /\ in.runs[k].audio
        /\ Min(in.runs[k].spectral, in.runs[k].sanity) >= in.score_threshold

\* C18: run_stylepack fails closed: when no attempt reaches score_threshold
\* within max_attempts it raises a RuntimeError instead of returning a
\* report.
C18_FailsClosed ==
    (genOut.status = "done" /\ genOut.op = "run_stylepack" /\ ~ReachesThreshold(genIn))
        => genOut.result = RuntimeError

\* ---------------------------------------------------------------------
\* HeadlessRunner.run_lines (cli/headless.py)
\* A script line is [kind, text, file]: a command that succeeds ("ok") or
\* raises ("fail"), an include of a file, or a blank line.  A message is
\* the sequence of the pieces its f-string joins.
\* ---------------------------------------------------------------------

\* the lines of a script
MaxLines == 3

\* the lines of an included script
MaxIncLines == 2

Line(kind, text, file) == [kind |-> kind, text |-> text, file |-> file]

\* the lines of a top-level script
TopLines ==
    {Line("ok", "new_project p", "none"), Line("fail", "set_swing x", "none"),
     Line("blank", "", "none"), Line("include", "include gone.txt", "gone.txt"),
     Line("include", "include a.txt", "a.txt")}

\* the lines of the included script a.txt
IncLines ==
    {Line("ok", "add_track t", "none"), Line("fail", "set_loop", "none"),
     Line("include", "include gone.txt", "gone.txt"), Line("include", "include b.txt", "b.txt")}

\* the included script b.txt
ScriptB == <<Line("fail", "delete_track 9", "none"), Line("ok", "add_track u", "none")>>

\* Path.exists() and read_text() of an include
FileExists(files, name) == name \in DOMAIN files

NoRaise == <<>>

\* run_lines(lines, base_dir=...) from line lineno on; acc = [met, warnings,
\* commands_executed, raised], met the lines reached with what became of them
RECURSIVE RunLines(_, _, _, _, _, _)
RunLines(name, lines, lineno, files, strict, acc) ==
    IF lineno > Len(lines) \/ acc.raised # NoRaise THEN acc
    ELSE LET line == lines[lineno]
             Met(failed, msg) ==
                 Append(acc.met, [file |-> name, lineno |-> lineno, text |-> line.text,
                                  failed |-> failed, msg |-> msg])
             Resume(included) == RunLines(name, lines, lineno + 1, files, strict, included)
             Fail(msg, exc) ==
                 IF strict THEN [acc EXCEPT !.met = Met(TRUE, msg), !.raised = <<exc>> \o msg]
                 ELSE RunLines(name, lines, lineno + 1, files, strict,
                               [acc EXCEPT !.met = Met(TRUE, msg), !.warnings = Append(@, msg)])
         IN  IF line.kind = "blank" THEN RunLines(name, lines, lineno + 1, files, strict, acc)
             ELSE IF line.kind = "include"
             THEN IF ~FileExists(files, line.file)
                  THEN Fail(<<"include not found: ", line.file>>, "FileNotFoundError")
                  ELSE Resume(RunLines(line.file, files[line.file], 1, files, strict,
                                       [acc EXCEPT !.met = Met(FALSE, <<>>)]))
             ELSE IF line.kind = "fail"
             THEN Fail(<<"Headless error line ", ToString(lineno), ": ", line.text, " (", "e", ")">>,
                       "RuntimeError")
             ELSE RunLines(name, lines, lineno + 1, files, strict,
                           [acc EXCEPT !.met = Met(FALSE, <<>>),
                                       !.commands_executed = @ + 1])

run_lines(lines, files, strict) ==
    RunLines("script", lines, 1, files, strict,
             [met |-> <<>>, warnings |-> <<>>, commands_executed |-> 0, raised |-> NoRaise])

InitScript ==
    /\ \E lines \in SeqsUpTo(TopLines, MaxLines), a \in SeqsUpTo(IncLines, MaxIncLines),
          strict \in BOOLEAN :
           scriptIn = [lines |-> lines, strict |-> strict,
                       files |-> [f \in {"a.txt", "b.txt"} |-> IF f = "a.txt" THEN a ELSE ScriptB]]
    /\ scriptOut = [status |-> "none"]
    /\ SessionIdle
    /\ TcIdle
    /\ WfIdle
    /\ NtIdle
    /\ JsIdle
    /\ MixIdle
    /\ FpIdle
    /\ GenIdle
    /\ MigIdle
    /\ RenIdle
    /\ EdIdle

\* HeadlessRunner(strict=...).run_lines(lines)
RunScript ==
    /\ scriptOut.status = "none"
    /\ scriptOut' = [status |-> "done",
                     run |-> run_lines(scriptIn.lines, scriptIn.files, scriptIn.strict)]
    /\ UNCHANGED scriptIn
    /\ UNCHANGED notScriptVars

NextScript == RunScript

SpecScript == InitScript /\ [][NextScript]_vars

\* the lines run_lines has to reach when no failure stops it: the lines of
\* the script that are not blank, and those of the files it includes
RECURSIVE LinesToRun(_, _)
LinesToRun(lines, files) ==
    IF Len(lines) = 0 THEN 0
    ELSE LET line == Head(lines)
         IN  (IF line.kind = "blank" THEN 0
              ELSE IF line.kind = "include" /\ FileExists(files, line.file)
              THEN 1 + LinesToRun(files[line.file], files)
              ELSE 1)
             + LinesToRun(Tail(lines), files)

\* C19: every failure while running a script (a failing command or a
\* missing include, at any include depth) produces a message that contains
\* the line number of the failing line and its original text; in non-strict
\* mode each failure is recorded as a warning and every later line is
\* still executed.
C19_FailuresReportedWithLine ==
    scriptOut.status = "done" =>
        LET run == scriptOut.run
        IN  /\ \A k \in 1..Len(run.met) :
                   run.met[k].failed =>
                       /\ ToString(run.met[k].lineno) \in Range(run.met[k].msg)
                       /\ run.met[k].text \in Range(run.met[k].msg)
                       /\ ~scriptIn.strict => run.met[k].msg \in Range(run.warnings)
            /\ ~scriptIn.strict =>
                   /\ run.raised = NoRaise
                   /\ Len(run.met) = LinesToRun(scriptIn.lines, scriptIn.files)

(***************************************************************************)
(* Schema migration (util/validate.py migrate_project_dict) on the way     *)
(* through load_project and save_project.  A project file is the dict its  *)
(* JSON holds; a file written by a later release carries a schema_version  *)
(* above the current one.                                                   *)
(***************************************************************************)
MaxSchemaVersion == 13

\* the keys the schemas after v1 added at the top level
LaterKeys ==
    {"swing_percent", "loop_start", "loop_end", "render_start", "render_end", "mix",
     "arrangement"}

DropKeys(d, keys) == [k \in DOMAIN d \ keys |-> d[k]]

MigProjects ==
    {NtProject(swing, <<-1, -1>>, <<>>, <<>>,
               NtTrack(notes, EmptyDict, <<>>, FALSE, "trap_hard", FALSE)) :
        swing \in {0, 50}, notes \in SeqsUpTo({PlainNote(0, 6, 60, 100)}, 1)}

\* project files: with every key or as schema v1 wrote them, and with
\* schema_version absent, 0, or any version up to MaxSchemaVersion
ProjectFiles ==
    LET Files(d) ==
            {DropKeys(d, {"schema_version"})}
                \cup {[d EXCEPT !.schema_version = v] : v \in 0..MaxSchemaVersion}
    IN  UNION {Files(DropKeys(project_to_dict(p), dropped)) :
                  p \in MigProjects, dropped \in {{}, LaterKeys}}

InitMigrate ==
    /\ migIn \in ProjectFiles
    /\ migOut = [stage |-> "none"]
    /\ SessionIdle
    /\ TcIdle
    /\ WfIdle
    /\ NtIdle
    /\ JsIdle
    /\ MixIdle
    /\ FpIdle
    /\ GenIdle
    /\ ScriptIdle
    /\ RenIdle
    /\ EdIdle

\* migrate_project_dict(data)
MigrateFile ==
    /\ migOut.stage = "none"
    /\ migOut' = [stage |-> "migrated", dict |-> migrate_project_dict(migIn)]
    /\ UNCHANGED <<migIn, notMigVars>>

\* load_project(path)
LoadFile ==
    /\ migOut.stage = "none"
    /\ LET Loaded(p) == IF IsRaised(p) THEN [stage |-> "error"]
                        ELSE [stage |-> "loaded", project |-> p]
       IN  migOut' = Loaded(project_json_load(migIn))
    /\ UNCHANGED <<migIn, notMigVars>>

\* save_project(project) of the project load_project returned
SaveLoaded ==
    /\ migOut.stage = "loaded"
    /\ LET Saved(file) == IF IsRaised(file) THEN [stage |-> "error"]
                          ELSE [stage |-> "saved", file |-> file]
       IN  migOut' = Saved(project_json_save(migOut.project))
    /\ UNCHANGED <<migIn, notMigVars>>

NextMigrate ==
    \/ MigrateFile
    \/ LoadFile
    \/ SaveLoaded

SpecMigrate == InitMigrate /\ [][NextMigrate]_vars

\* the schema version the input file declares (1 when it declares none)
InputVersion == Get(migIn, "schema_version", 1)

\* C22: the schema version after migration, and after load and save, is at
\* least the input's version and at least the current version, also for an
\* input whose version is above the current one.
C22_SchemaVersionMonotone ==
    /\ migOut.stage = "migrated" =>
           /\ migOut.dict.schema_version >= InputVersion
           /\ migOut.dict.schema_version >= CURRENT_SCHEMA_VERSION
    /\ migOut.stage = "saved" =>
           /\ migOut.file.schema_version >= InputVersion
           /\ migOut.file.schema_version >= CURRENT_SCHEMA_VERSION

(***************************************************************************)
(* The render call chain: audio/render.py render_project_wav,              *)
(* audio/mix_engine.py mix_project_wav, audio/stems.py export_stems and    *)
(* export_busses, entered from the export commands of cli/headless.py.     *)
(* renStack holds one frame per active call: [fn, pmix, arg, i, n], where  *)
(* pmix says whether the frame's project has a non-empty mix, arg whether  *)
(* a mix was passed as argument, and i of n is the position of the frame's *)
(* loop (or 0 before and 1 after the frame's one call).                    *)
(***************************************************************************)
MaxRenderTracks == 2

\* the depth at which the interpreter gives up with RecursionError
\* (sys.getrecursionlimit() frames; a small number of frames here)
MaxDepth == 9

RecursionError == [status |-> "RecursionError"]

Frame(fn, pmix, arg, n) == [fn |-> fn, pmix |-> pmix, arg |-> arg, i |-> 0, n |-> n]

RenderCommands == {"export_wav", "export_wav mix=", "export_stems", "export_busses"}

\* the busses _group_tracks_by_bus finds
BusGroups(tracks) == {tracks[i] : i \in 1..Len(tracks)}

InitRender ==
    /\ renIn \in [tracks : SeqsUpTo({"drums", "music"}, MaxRenderTracks),
                  mix : BOOLEAN,
                  cmd : RenderCommands]
    /\ renStack = <<>>
    /\ renOut = [status |-> "none"]
    /\ SessionIdle
    /\ TcIdle
    /\ WfIdle
    /\ NtIdle
    /\ JsIdle
    /\ MixIdle
    /\ FpIdle
    /\ GenIdle
    /\ ScriptIdle
    /\ MigIdle
    /\ EdIdle

Top == renStack[Len(renStack)]

\* the top frame calls callee: a new frame, or RecursionError unwinding
\* every frame when the stack is full
Call(advanced, callee) ==
    IF Len(renStack) >= MaxDepth
    THEN /\ renStack' = <<>>
         /\ renOut' = RecursionError
    ELSE /\ renStack' = [renStack EXCEPT ![Len(renStack)] = advanced] \o <<callee>>
         /\ UNCHANGED renOut

\* the top frame returns
Return ==
    /\ renStack' = SubSeq(renStack, 1, Len(renStack) - 1)
    /\ renOut' = IF Len(renStack) = 1 THEN [status |-> "done"] ELSE renOut

\* run_command: export_wav slices the project (the slice has an empty mix)
\* and passes the mix file, if any; export_stems and export_busses hand the
\* project over as it is
RunExport ==
    /\ renOut.status = "none"
    /\ renStack = <<>>
    /\ renStack' =
           <<CASE renIn.cmd = "export_wav" ->
                      Frame("render_project_wav", FALSE, FALSE, 1)
               [] renIn.cmd = "export_wav mix=" ->
                      Frame("render_project_wav", FALSE, TRUE, 1)
               [] renIn.cmd = "export_stems" ->
                      Frame("export_stems", renIn.mix, FALSE, Len(renIn.tracks))
               [] OTHER ->
                      Frame("export_busses", renIn.mix, FALSE,
                            Cardinality(BusGroups(renIn.tracks)))>>
    /\ renOut' = [status |-> "running"]
    /\ UNCHANGED <<renIn, notRenVars>>

\* render_project_wav: with a mix (argument or project.mix) it hands over to
\* mix_project_wav and returns its result; without one it renders
RenderProjectWav ==
    /\ renStack # <<>>
    /\ Top.fn = "render_project_wav"
    /\ IF (Top.arg \/ Top.pmix) /\ Top.i = 0
       THEN Call([Top EXCEPT !.i = 1], Frame("mix_project_wav", Top.pmix, TRUE, 1))
       ELSE Return
    /\ UNCHANGED <<renIn, notRenVars>>

\* mix_project_wav: export_stems(project) first, then the ffmpeg mix
MixProjectWavFrame ==
    /\ renStack # <<>>
    /\ Top.fn = "mix_project_wav"
    /\ IF Top.i = 0
       THEN Call([Top EXCEPT !.i = 1],
                 Frame("export_stems", Top.pmix, FALSE, Len(renIn.tracks)))
       ELSE Return
    /\ UNCHANGED <<renIn, notRenVars>>

\* export_stems: per track, p2 = Project.from_dict(project.to_dict()), which
\* keeps project.mix, then render_project_wav(p2) without a mix argument
ExportStems ==
    /\ renStack # <<>>
    /\ Top.fn = "export_stems"
    /\ IF Top.i < Top.n
       THEN Call([Top EXCEPT !.i = @ + 1], Frame("render_project_wav", Top.pmix, FALSE, 1))
       ELSE Return
    /\ UNCHANGED <<renIn, notRenVars>>

\* export_busses: the same per bus
ExportBusses ==
    /\ renStack # <<>>
    /\ Top.fn = "export_busses"
    /\ IF Top.i < Top.n
       THEN Call([Top EXCEPT !.i = @ + 1], Frame("render_project_wav", Top.pmix, FALSE, 1))
       ELSE Return
    /\ UNCHANGED <<renIn, notRenVars>>

NextRender ==
    \/ RunExport
    \/ RenderProjectWav
    \/ MixProjectWavFrame
    \/ ExportStems
    \/ ExportBusses

SpecRender == InitRender /\ [][NextRender]_vars

\* C23: rendering terminates: the chain render_project_wav ->
\* mix_project_wav -> export_stems -> render_project_wav has bounded depth
\* (the mix engine is never entered from within itself and the stack never
\* overflows), also for a project with tracks and a non-empty project.mix,
\* and for export_stems and export_busses on it.
C23_RenderDepthBounded ==
    /\ renOut.status # "RecursionError"
    /\ Cardinality({k \in 1..Len(renStack) : renStack[k].fn = "mix_project_wav"}) <= 1

(***************************************************************************)
(* Track references in an editing session (cli/headless.py add_track,      *)
(* delete_track, new_pattern, add_variation, eq, sidechain, select_notes;  *)
(* cli/mix_cmds.py).  A track is [name, patterns]; a variation names its   *)
(* track by index; project.mix is [tracks, sidechain] with tracks a dict   *)
(* keyed by track index; the selection is a set of [track, pattern, idxs]  *)
(* entries, one per key (track, pattern).                                  *)
(***************************************************************************)
MaxEdTracks == 2
MaxEdRefs == 1

EdTrackNames == {"a", "b", "c"}

EdOk(cmd) == [cmd |-> cmd, ok |-> TRUE]
EdError(cmd) == [cmd |-> cmd, ok |-> FALSE]

\* Project(name=..., tempo_bpm=...)
EdNewProjectRecord ==
    [open |-> TRUE, tracks |-> <<>>, variations |-> <<>>, mix |-> EmptyMix]

\* self._selection[(ti, pat_name)] = idxs
PutSelection(sel, ti, pat_name, idxs) ==
    {s \in sel : ~(s.track = ti /\ s.pattern = pat_name)}
        \cup {[track |-> ti, pattern |-> pat_name, idxs |-> idxs]}

\* the track indices a command may name: the valid ones and one past them
EdTrackArgs == 0..Len(edProject.tracks)

InitTracks ==
    /\ edProject = [open |-> FALSE]
    /\ edSelection = {}
    /\ edResult = [cmd |-> "none", ok |-> TRUE]
    /\ SessionIdle
    /\ TcIdle
    /\ WfIdle
    /\ NtIdle
    /\ JsIdle
    /\ MixIdle
    /\ FpIdle
    /\ GenIdle
    /\ ScriptIdle
    /\ MigIdle
    /\ RenIdle

\* new_project <name>: the runner's selection is left as it is
TracksNewProject ==
    /\ edProject' = EdNewProjectRecord
    /\ edResult' = EdOk("new_project")
    /\ UNCHANGED <<edSelection, notEdVars>>

\* add_track <name>
TracksAddTrack ==
    /\ edProject.open
    /\ Len(edProject.tracks) < MaxEdTracks
    /\ \E name \in EdTrackNames \ {edProject.tracks[i].name : i \in 1..Len(edProject.tracks)} :
           edProject' = [edProject EXCEPT
                            !.tracks = Append(@, [name |-> name, patterns |-> EmptyDict])]
    /\ edResult' = EdOk("add_track")
    /\ UNCHANGED <<edSelection, notEdVars>>

\* delete_track <idx>: proj.tracks.pop(idx), nothing else
TracksDeleteTrack ==
    /\ edProject.open
    /\ \E idx \in EdTrackArgs :
           IF idx >= Len(edProject.tracks)
           THEN /\ edResult' = EdError("delete_track")
                /\ UNCHANGED edProject
           ELSE /\ edProject' = [edProject EXCEPT
                                    !.tracks = SubSeq(@, 1, idx) \o SubSeq(@, idx + 2, Len(@))]
                /\ edResult' = EdOk("delete_track")
    /\ UNCHANGED <<edSelection, notEdVars>>

\* new_pattern <track> p <length>
TracksNewPattern ==
    /\ edProject.open
    /\ \E ti \in EdTrackArgs :
           IF ti >= Len(edProject.tracks)
           THEN /\ edResult' = EdError("new_pattern")
                /\ UNCHANGED edProject
           ELSE /\ edProject' = [edProject EXCEPT
                                    !.tracks[ti + 1].patterns = [p |-> [notes |-> <<>>]]]
                /\ edResult' = EdOk("new_pattern")
    /\ UNCHANGED <<edSelection, notEdVars>>

\* add_variation verse <track_index> p q
AddVariation ==
    /\ edProject.open
    /\ Len(edProject.variations) < MaxEdRefs
    /\ \E ti \in 0..(Len(edProject.tracks) - 1) :
           edProject' = [edProject EXCEPT
                            !.variations = Append(@, [section |-> "verse", track_index |-> ti,
                                                      src_pattern |-> "p", dst_pattern |-> "q"])]
    /\ edResult' = EdOk("add_variation")
    /\ UNCHANGED <<edSelection, notEdVars>>

\* eq track=<i> type=hp f=100: apply_track_eq
Eq ==
    /\ edProject.open
    /\ \E track \in 0..(Len(edProject.tracks) - 1) :
           edProject' = [edProject EXCEPT
                            !.mix.tracks = (track :> [highpass_hz |-> 100]) @@ @]
    /\ edResult' = EdOk("eq")
    /\ UNCHANGED <<edSelection, notEdVars>>

\* sidechain src=<i> dst=<j>: apply_sidechain
Sidechain ==
    /\ edProject.open
    /\ Len(edProject.mix.sidechain) < MaxEdRefs
    /\ \E src, dst \in 0..(Len(edProject.tracks) - 1) :
           /\ src # dst
           /\ edProject' = [edProject EXCEPT
                               !.mix.sidechain = Append(@, [src |-> src, dst |-> dst])]
    /\ edResult' = EdOk("sidechain")
    /\ UNCHANGED <<edSelection, notEdVars>>

\* select_notes <track> p (no filter: every note of the pattern)
TracksSelectNotes ==
    /\ edProject.open
    /\ \E ti \in EdTrackArgs :
           IF ti >= Len(edProject.tracks) \/ "p" \notin DOMAIN edProject.tracks[ti + 1].patterns
           THEN /\ edResult' = EdError("select_notes")
                /\ UNCHANGED edSelection
           ELSE /\ edSelection' =
                       PutSelection(edSelection, ti, "p",
                                    List([i \in 1..Len(edProject.tracks[ti + 1].patterns["p"].notes)
                                             |-> i - 1]))
                /\ edResult' = EdOk("select_notes")
    /\ UNCHANGED <<edProject, notEdVars>>

\* the session's project as the exports take it: 480 ppq, no swing, no
\* region, tracks without notes
EdAsProject(p) ==
    [ppq |-> 480, swing_percent |-> 0, loop_start |-> -1, loop_end |-> -1,
     render_start |-> -1, render_end |-> -1, mix |-> p.mix,
     sections |-> <<>>, variations |-> p.variations,
     tracks |-> List([i \in 1..Len(p.tracks) |->
                         NtTrack(<<>>, EmptyDict, <<>>, FALSE, "trap_hard", FALSE)])]

\* bool(mix): the empty dict (like None) is false
Truthy(mix) == mix # EmptyMix

\* render_project_wav: eff_mix = mix or project.mix
eff_mix(mix, proj) == IF Truthy(mix) THEN mix ELSE proj.mix

\* export_wav <path> [mix=<file>]: derive the region, slice, read the mix
\* file if one is named (mix_spec stays empty otherwise), render the slice
TracksExportWav ==
    /\ edProject.open
    /\ \E mix_file \in BOOLEAN :
           LET proj == EdAsProject(edProject)
               mix_spec == IF mix_file
                           THEN [tracks |-> (0 :> [lowpass_hz |-> 8000]), sidechain |-> <<>>]
                           ELSE EmptyMix
               Rendered(render_proj) ==
                   IF IsRaised(render_proj) THEN EdError("export_wav")
                   ELSE [cmd |-> "export_wav", ok |-> TRUE, mix_file |-> mix_file,
                         mix |-> eff_mix(mix_spec, render_proj)]
           IN  edResult' = Rendered(slice_project_range(proj, 0, project_song_end_tick(proj)))
    /\ UNCHANGED <<edProject, edSelection, notEdVars>>

NextTracks ==
    \/ TracksNewProject
    \/ TracksAddTrack
    \/ TracksDeleteTrack
    \/ TracksNewPattern
    \/ AddVariation
    \/ Eq
    \/ Sidechain
    \/ TracksSelectNotes
    \/ TracksExportWav

SpecTracks == InitTracks /\ [][NextTracks]_vars

\* the name of the track an index designates ("none" when there is none)
TrackNamed(tracks, idx) ==
    IF 0 <= idx /\ idx < Len(tracks) THEN tracks[idx + 1].name ELSE "none"

\* the tracks the references of a project and a selection designate
VariationTracks(p) ==
    List([k \in 1..Len(p.variations) |-> TrackNamed(p.tracks, p.variations[k].track_index)])

MixTracks(p) == {TrackNamed(p.tracks, k) : k \in DOMAIN p.mix.tracks}

SidechainTracks(p) ==
    List([k \in 1..Len(p.mix.sidechain) |->
             <<TrackNamed(p.tracks, p.mix.sidechain[k].src),
               TrackNamed(p.tracks, p.mix.sidechain[k].dst)>>])

SelectionTracks(p, sel) == {TrackNamed(p.tracks, s.track) : s \in sel}

\* C24: a delete_track leaves every index-based reference on the track it
\* designated before, or removes it with the deleted track: the
\* variations' track_index, the keys of mix.tracks, the sidechain rules'
\* src and dst, and the stored selections.
C24_DeleteTrackKeepsReferences ==
    [][(edResult'.cmd = "delete_track" /\ edResult'.ok) =>
          LET gone == CHOOSE n \in EdTrackNames :
                          /\ n \in {edProject.tracks[i].name : i \in 1..Len(edProject.tracks)}
                          /\ n \notin {edProject'.tracks[i].name : i \in 1..Len(edProject'.tracks)}
              Stays(n) == n # gone
              StaysBoth(pair) == pair[1] # gone /\ pair[2] # gone
          IN  /\ VariationTracks(edProject') = SelectSeq(VariationTracks(edProject), Stays)
              /\ MixTracks(edProject') = MixTracks(edProject) \ {gone}
              /\ SidechainTracks(edProject') = SelectSeq(SidechainTracks(edProject), StaysBoth)
              /\ SelectionTracks(edProject', edSelection')
                     = SelectionTracks(edProject, edSelection) \ {gone}]_vars

\* C27: an export_wav without a mix= file renders with the project's
\* current mix spec, as the eq and sidechain commands left it.
C27_ExportUsesProjectMix ==
    (edResult.cmd = "export_wav" /\ edResult.ok /\ ~edResult.mix_file) =>
        edResult.mix = edProject.mix

(***************************************************************************)
(* Pattern transforms (arrange/transform.py; cli/headless.py               *)
(* pattern_transpose, pattern_shift, pattern_stretch, pattern_reverse,     *)
(* pattern_vel) on pattern p of track 0.  A factor is in hundredths.       *)
(***************************************************************************)
\* Note(start=..., duration=..., pitch=..., velocity=...): the other fields
\* take the defaults of the dataclass
NoteOf(start, duration, pitch, velocity) == Note(PlainNote(start, duration, pitch, velocity))

\* replace(pattern, notes=notes), or the ValueError a Note raised
Replaced(pattern, length, notes) ==
    IF Raised(notes) THEN ValueError ELSE [length |-> length, notes |-> notes]

transpose(pattern, semitones) ==
    Replaced(pattern, pattern.length,
             List([i \in 1..Len(pattern.notes) |->
                      LET n == pattern.notes[i]
                      IN  NoteOf(n.start, n.duration, Max(0, Min(127, n.pitch + semitones)),
                                 n.velocity)]))

shift(pattern, ticks) ==
    Replaced(pattern, pattern.length,
             List([i \in 1..Len(pattern.notes) |->
                      LET n == pattern.notes[i]
                      IN  NoteOf(Max(0, n.start + ticks), n.duration, n.pitch, n.velocity)]))

stretch(pattern, factor) ==
    IF factor <= 0 THEN ValueError
    ELSE Replaced(pattern, Max(1, PyRound(pattern.length * factor, 100)),
                  List([i \in 1..Len(pattern.notes) |->
                           LET n == pattern.notes[i]
                           IN  NoteOf(PyRound(n.start * factor, 100),
                                      Max(1, PyRound(n.duration * factor, 100)),
                                      n.pitch, n.velocity)]))

reverse(pattern) ==
    LET Sorted(notes) ==
            IF Raised(notes) THEN notes
            ELSE StableSort(notes, List([i \in 1..Len(notes) |-> NoteSortKey(notes[i])]))
    IN  Replaced(pattern, pattern.length,
                 Sorted(List([i \in 1..Len(pattern.notes) |->
                                 LET n == pattern.notes[i]
                                 IN  NoteOf(Max(0, pattern.length - (n.start + n.duration)),
                                            n.duration, n.pitch, n.velocity)])))

velocity_scale(pattern, scale) ==
    IF scale <= 0 THEN ValueError
    ELSE Replaced(pattern, pattern.length,
                  List([i \in 1..Len(pattern.notes) |->
                           LET n == pattern.notes[i]
                           IN  NoteOf(n.start, n.duration, n.pitch,
                                      Max(1, Min(127, PyRound(n.velocity * scale, 100))))]))

\* a project with one track whose pattern p (one bar of a 24-ppq project)
\* holds notes with roles, chances, mutes and accents
InitTransform ==
    /\ \E notes \in NoteLists :
           edProject = [open |-> TRUE,
                        tracks |-> <<[name |-> "a",
                                      patterns |-> [p |-> [length |-> 96, notes |-> notes]]]>>,
                        variations |-> <<>>,
                        mix |-> EmptyMix]
    /\ edSelection = {}
    /\ edResult = [cmd |-> "none", ok |-> TRUE]
    /\ SessionIdle
    /\ TcIdle
    /\ WfIdle
    /\ NtIdle
    /\ JsIdle
    /\ MixIdle
    /\ FpIdle
    /\ GenIdle
    /\ ScriptIdle
    /\ MigIdle
    /\ RenIdle

\* t.patterns[name] = transform(t.patterns[name], ...): the assignment is
\* not reached when the transform raises
PutTransformed(cmd, pat) ==
    /\ edResult.cmd = "none"
    /\ IF IsRaised(pat)
       THEN /\ edResult' = EdError(cmd)
            /\ UNCHANGED edProject
       ELSE /\ edProject' = [edProject EXCEPT !.tracks[1].patterns["p"] = pat]
            /\ edResult' = EdOk(cmd)
    /\ UNCHANGED <<edSelection, notEdVars>>

\* pattern_transpose 0 p <semitones>
PatternTranspose ==
    \E semi \in {-12, 1, 127} :
        PutTransformed("pattern_transpose", transpose(edProject.tracks[1].patterns["p"], semi))

\* pattern_shift 0 p <ticks>
PatternShift ==
    \E ticks \in {-6, 6} :
        PutTransformed("pattern_shift", shift(edProject.tracks[1].patterns["p"], ticks))

\* pattern_stretch 0 p <factor>
PatternStretch ==
    \E factor \in {0, 50, 200} :
        PutTransformed("pattern_stretch", stretch(edProject.tracks[1].patterns["p"], factor))

\* pattern_reverse 0 p
PatternReverse ==
    PutTransformed("pattern_reverse", reverse(edProject.tracks[1].patterns["p"]))

\* pattern_vel 0 p <scale>
PatternVel ==
    \E scale \in {0, 50, 150} :
        PutTransformed("pattern_vel", velocity_scale(edProject.tracks[1].patterns["p"], scale))

NextTransform ==
    \/ PatternTranspose
    \/ PatternShift
    \/ PatternStretch
    \/ PatternReverse
    \/ PatternVel

SpecTransform == InitTransform /\ [][NextTransform]_vars

\* the attributes of a note no transform targets
Untargeted(n) == <<n.role, n.chance, n.mute, n.accent, n.glide_ticks>>

\* how many notes of a list carry the attributes a
CountOf(notes, a) == Cardinality({i \in 1..Len(notes) : Untargeted(notes[i]) = a})

\* C25: a pattern transform changes only the attribute it targets: the
\* pattern has as many notes after it as before, and as many notes with
\* each combination of role, chance, mute, accent and glide_ticks (note by
\* note for the transforms that keep the order).
C25_TransformsKeepOtherAttributes ==
    [][(edResult.cmd = "none" /\ edResult'.cmd # "none" /\ edResult'.ok) =>
          LET before == edProject.tracks[1].patterns["p"].notes
              after == edProject'.tracks[1].patterns["p"].notes
          IN  /\ Len(after) = Len(before)
              /\ \A i \in 1..Len(before) :
                     CountOf(after, Untargeted(before[i])) = CountOf(before, Untargeted(before[i]))
              /\ edResult'.cmd # "pattern_reverse" =>
                     \A i \in 1..Len(before) : Untargeted(after[i]) = Untargeted(before[i])]_vars

(***************************************************************************)
(* Note selections (cli/headless.py select_notes, apply_selected) on       *)
(* pattern p of track 0 of a 24-ppq project, with the commands that edit   *)
(* or replace the pattern between the two.                                 *)
(***************************************************************************)
MaxSelNotes == 2

\* the notes the commands add: a sixteenth and an eighth
SelPool == {PlainNote(0, 6, 60, 100), PlainNote(6, 12, 62, 100)}

\* the filter lists select_notes is given; "len" is not a filter key
SelFilters ==
    {<<[key |-> "dur", op |-> "=", val |-> 6]>>,
     <<[key |-> "dur", op |-> "=", val |-> 6], [key |-> "pitch", op |-> ">=", val |-> 60]>>,
     <<[key |-> "dur", op |-> "=", val |-> 6], [key |-> "len", op |-> "=", val |-> 6]>>}

\* the operations apply_selected is given
SelOps ==
    {[op |-> "transpose", arg |-> -60], [op |-> "set", arg |-> 1], [op |-> "set", arg |-> 0],
     [op |-> "bogus", arg |-> 0], [op |-> "none", arg |-> 0]}

FilterKeys == {"pitch", "vel", "start", "dur"}

\* match(n, key, op, raw) of select_notes, for a known key
match(n, f) ==
    LET cur == CASE f.key = "pitch" -> n.pitch
                 [] f.key = "vel" -> n.velocity
                 [] f.key = "start" -> n.start
                 [] OTHER -> n.duration
    IN  CASE f.op = "=" -> cur = f.val
          [] f.op = "!=" -> cur # f.val
          [] f.op = ">=" -> cur >= f.val
          [] f.op = "<=" -> cur <= f.val
          [] f.op = ">" -> cur > f.val
          [] f.op = "<" -> cur < f.val
          [] OTHER -> FALSE

\* ok = ok and match(...): an unknown key raises when the filters before it
\* all matched
MatchRaises(n, filters) ==
    \E k \in 1..Len(filters) :
        /\ filters[k].key \notin FilterKeys
        /\ \A j \in 1..(k - 1) : filters[j].key \in FilterKeys /\ match(n, filters[j])

Matches(n, filters) == \A k \in 1..Len(filters) : match(n, filters[k])

\* the pattern a command names by (0, "p"), or the error of the lookup
SelPattern ==
    IF ~edProject.open \/ Len(edProject.tracks) = 0 THEN [raised |-> "IndexError"]
    ELSE IF ~Has(edProject.tracks[1].patterns, "p") THEN [raised |-> "KeyError"]
    ELSE edProject.tracks[1].patterns["p"]

\* one step of a loop of apply_selected on note n
ApplyOp(n, o) ==
    IF o.op = "transpose" THEN [n EXCEPT !.pitch = Max(0, Min(127, @ + o.arg))]
    ELSE [n EXCEPT !.mute = (o.arg # 0)]

\* for i in sel: pat.notes[i].<attr> = ...; the notes are changed in place,
\* one index after the other, until an index is out of range
RECURSIVE ApplyLoop(_, _, _)
ApplyLoop(notes, sel, o) ==
    IF sel = <<>> THEN [notes |-> notes, ok |-> TRUE]
    ELSE IF Head(sel) >= Len(notes) THEN [notes |-> notes, ok |-> FALSE]
    ELSE ApplyLoop([notes EXCEPT ![Head(sel) + 1] = ApplyOp(@, o)], Tail(sel), o)

\* self._selection.get((ti, pat_name), [])
SelectionOf(sel, ti, pat_name) ==
    IF \E s \in sel : s.track = ti /\ s.pattern = pat_name
    THEN (CHOOSE s \in sel : s.track = ti /\ s.pattern = pat_name).idxs
    ELSE <<>>

InitSelect ==
    /\ \E notes \in SeqsUpTo(SelPool, MaxSelNotes) :
           edProject = [open |-> TRUE,
                        tracks |-> <<[name |-> "a",
                                      patterns |-> ("p" :> [length |-> 96, notes |-> notes])]>>,
                        variations |-> <<>>,
                        mix |-> EmptyMix]
    /\ edSelection = {}
    /\ edResult = [cmd |-> "none", ok |-> TRUE]
    /\ SessionIdle
    /\ TcIdle
    /\ WfIdle
    /\ NtIdle
    /\ JsIdle
    /\ MixIdle
    /\ FpIdle
    /\ GenIdle
    /\ ScriptIdle
    /\ MigIdle
    /\ RenIdle

\* new_project <name>
SelNewProject ==
    /\ edProject' = EdNewProjectRecord
    /\ edResult' = EdOk("new_project")
    /\ UNCHANGED <<edSelection, notEdVars>>

\* add_track a
SelAddTrack ==
    /\ edProject.open
    /\ Len(edProject.tracks) = 0
    /\ edProject' = [edProject EXCEPT
                        !.tracks = Append(@, [name |-> "a", patterns |-> EmptyDict])]
    /\ edResult' = EdOk("add_track")
    /\ UNCHANGED <<edSelection, notEdVars>>

\* new_pattern 0 p 1:0: an existing pattern of the name is replaced
SelNewPattern ==
    /\ edProject.open
    /\ IF Len(edProject.tracks) = 0
       THEN /\ edResult' = EdError("new_pattern")
            /\ UNCHANGED edProject
       ELSE /\ edProject' = [edProject EXCEPT
                                !.tracks[1].patterns = ("p" :> [length |-> 96, notes |-> <<>>])]
            /\ edResult' = EdOk("new_pattern")
    /\ UNCHANGED <<edSelection, notEdVars>>

\* delete_pattern 0 p
SelDeletePattern ==
    /\ edProject.open
    /\ IF IsRaised(SelPattern)
       THEN /\ edResult' = EdError("delete_pattern")
            /\ UNCHANGED edProject
       ELSE /\ edProject' = [edProject EXCEPT !.tracks[1].patterns = EmptyDict]
            /\ edResult' = EdOk("delete_pattern")
    /\ UNCHANGED <<edSelection, notEdVars>>

\* add_note_pat 0 p <pitch> <start> <dur>: the note is appended
SelAddNotePat ==
    /\ edProject.open
    /\ \E n \in SelPool :
           LET Added(pat, note) ==
                   IF IsRaised(pat) \/ IsRaised(note)
                   THEN /\ edResult' = EdError("add_note_pat")
                        /\ UNCHANGED edProject
                   ELSE /\ Len(pat.notes) < MaxSelNotes
                        /\ edProject' = [edProject EXCEPT
                                            !.tracks[1].patterns["p"].notes = Append(@, note)]
                        /\ edResult' = EdOk("add_note_pat")
           IN  Added(SelPattern, Note(n))
    /\ UNCHANGED <<edSelection, notEdVars>>

\* pattern_reverse 0 p
SelPatternReverse ==
    /\ edProject.open
    /\ LET Put(pat) ==
               IF IsRaised(pat)
               THEN /\ edResult' = EdError("pattern_reverse")
                    /\ UNCHANGED edProject
               ELSE /\ edProject' = [edProject EXCEPT !.tracks[1].patterns["p"] = pat]
                    /\ edResult' = EdOk("pattern_reverse")
       IN  Put(IF IsRaised(SelPattern) THEN SelPattern ELSE reverse(SelPattern))
    /\ UNCHANGED <<edSelection, notEdVars>>

\* select_notes 0 p <filters>
SelectNotes ==
    /\ edProject.open
    /\ \E filters \in SelFilters :
           LET Selected(pat) ==
                   IF IsRaised(pat) \/ \E i \in 1..Len(pat.notes) : MatchRaises(pat.notes[i], filters)
                   THEN /\ edResult' = EdError("select_notes")
                        /\ UNCHANGED edSelection
                   ELSE /\ edSelection' =
                               PutSelection(edSelection, 0, "p",
                                            SelectSeq(List([i \in 1..Len(pat.notes) |-> i - 1]),
                                                      LAMBDA i : Matches(pat.notes[i + 1], filters)))
                        /\ edResult' = EdOk("select_notes")
           IN  Selected(SelPattern)
    /\ UNCHANGED <<edProject, notEdVars>>

\* apply_selected 0 p op=<op> ...: the pattern is looked up, then the
\* selection, then the operation; a loop that meets an index out of range
\* stops there, with the notes before it changed
ApplySelected ==
    /\ edProject.open
    /\ \E o \in SelOps :
           LET Applied(pat, done) ==
                   IF IsRaised(pat) \/ o.op \in {"bogus", "none"}
                   THEN /\ edResult' = EdError("apply_selected")
                        /\ UNCHANGED edProject
                   ELSE /\ edProject' = [edProject EXCEPT
                                            !.tracks[1].patterns["p"].notes = done.notes]
                        /\ edResult' = IF done.ok THEN EdOk("apply_selected")
                                       ELSE EdError("apply_selected")
           IN  Applied(SelPattern,
                       IF IsRaised(SelPattern) THEN [notes |-> <<>>, ok |-> FALSE]
                       ELSE ApplyLoop(SelPattern.notes, SelectionOf(edSelection, 0, "p"), o))
    /\ UNCHANGED <<edSelection, notEdVars>>

NextSelect ==
    \/ SelNewProject
    \/ SelAddTrack
    \/ SelNewPattern
    \/ SelDeletePattern
    \/ SelAddNotePat
    \/ SelPatternReverse
    \/ SelectNotes
    \/ ApplySelected

SpecSelect == InitSelect /\ [][NextSelect]_vars

\* C28: apply_selected changes only notes that matched the filter when
\* select_notes ran, and does not fail with some notes changed.  Every
\* filter of SelFilters asks for dur=6 and no command of SpecSelect changes
\* a duration, so a note whose duration is not 6 was never selected:
\* apply_selected leaves it as it is; and a failed apply_selected leaves
\* the pattern as it was.
C28_ApplySelectedOnlySelected ==
    [][edResult'.cmd = "apply_selected" =>
          /\ ~edResult'.ok => edProject' = edProject
          /\ ~IsRaised(SelPattern) =>
                 LET before == edProject.tracks[1].patterns["p"].notes
                     after == edProject'.tracks[1].patterns["p"].notes
                 IN  \A i \in 1..Len(before) :
                         before[i].duration # 6 => after[i] = before[i]]_vars

(***************************************************************************)
(* Section gain (quality_workflow.py apply_section_gain) in runs of the    *)
(* quality workflow on one project file.  wfIn holds the file and the      *)
(* names of its tracks, wfOut the outcome of the last run and the number   *)
(* of runs so far.  A scale is in hundredths.                              *)
(***************************************************************************)
MaxGainRuns == 2

\* _guess_section_scale(pattern_name), for the names of GainPatterns; -1
\* is None
guess_section_scale(pattern_name) ==
    CASE pattern_name = "break" -> 75
      [] pattern_name = "intro" -> 85
      [] pattern_name = "verse" -> 90
      [] pattern_name = "hook" -> 100
      [] OTHER -> -1

\* _scale_vel(v, factor)
scale_vel(v, factor) == Max(1, Min(127, PyRound(v * factor, 100)))

\* prepare_mix_spec, the part that touches the project file: the project
\* is loaded and saved back to the same path
prepare_mix_spec(file) ==
    LET Saved(proj) == IF IsRaised(proj) THEN proj ELSE project_json_save(proj)
    IN  Saved(project_json_load(file))

\* apply_section_gain(project_json): load, scale the notes of every pattern
\* whose name has a scale, on the tracks that are not excluded, and save to
\* the same path
apply_section_gain(file, names, include_drums, include_bass) ==
    LET Skipped(i) ==
            \/ classify_track(names[i]).is_drums /\ ~include_drums
            \/ classify_track(names[i]).role = "bass" /\ ~include_bass
        ScaledPattern(pname, pat) ==
            IF guess_section_scale(pname) = -1 THEN pat
            ELSE [pat EXCEPT !.notes =
                     List([j \in 1..Len(pat.notes) |->
                              [pat.notes[j] EXCEPT
                                  !.velocity = scale_vel(@, guess_section_scale(pname))]])]
        Saved(proj) ==
            IF IsRaised(proj) THEN proj
            ELSE project_json_save(
                     [proj EXCEPT !.tracks =
                         List([i \in 1..Len(proj.tracks) |->
                                  IF Skipped(i) THEN proj.tracks[i]
                                  ELSE [proj.tracks[i] EXCEPT !.patterns =
                                           [k \in DOMAIN @ |-> ScaledPattern(k, @[k])]]])])
    IN  Saved(project_json_load(file))

\* the patterns of the one track of a project file
GainPatterns ==
    LET Pat(notes) == [length |-> 96, notes |-> notes]
        quiet == <<PlainNote(0, 6, 60, 1)>>
        loud == <<PlainNote(0, 6, 60, 100), PlainNote(6, 6, 62, 127)>>
    IN  {[verse |-> Pat(loud)],
         [verse |-> Pat(quiet)],
         [break |-> Pat(loud), hook |-> Pat(loud)],
         [intro |-> Pat(loud), main |-> Pat(loud)],
         [main |-> Pat(loud)]}

GainTrackNames == {"pad", "drums", "bass"}

InitGain ==
    /\ \E name \in GainTrackNames, patterns \in GainPatterns :
           wfIn = [names |-> <<name>>,
                   file |-> project_json_save(
                                NtProject(0, <<-1, -1>>, <<>>, <<>>,
                                          NtTrack(<<>>, patterns, <<>>, FALSE, "trap_hard",
                                                  FALSE)))]
    /\ wfOut = [status |-> "none", runs |-> 0, gains |-> 0]
    /\ SessionIdle
    /\ TcIdle
    /\ NtIdle
    /\ JsIdle
    /\ MixIdle
    /\ FpIdle
    /\ GenIdle
    /\ ScriptIdle
    /\ MigIdle
    /\ RenIdle
    /\ EdIdle

\* run_quality_workflow(project_json=the file, section_gain=...): the file
\* is rewritten by mix_prepare and by section_gain; the steps after them
\* read it and pass or fail
RunOnFile ==
    /\ wfOut.runs < MaxGainRuns
    /\ \E preset_known, section_gain, rest_ok \in BOOLEAN :
           LET Failed == wfOut' = [wfOut EXCEPT !.status = "raised", !.runs = @ + 1]
               Gained(prepared, gained) ==
                   IF IsRaised(gained)
                   THEN Failed /\ wfIn' = [wfIn EXCEPT !.file = prepared]
                   ELSE /\ wfIn' = [wfIn EXCEPT !.file = gained]
                        /\ wfOut' = [status |-> IF rest_ok THEN "returned" ELSE "raised",
                                     runs |-> wfOut.runs + 1, gains |-> wfOut.gains + 1]
               Prepared(prepared) ==
                   IF IsRaised(prepared)
                   THEN Failed /\ UNCHANGED wfIn
                   ELSE IF ~section_gain
                   THEN /\ wfIn' = [wfIn EXCEPT !.file = prepared]
                        /\ wfOut' = [wfOut EXCEPT
                                        !.status = IF rest_ok THEN "returned" ELSE "raised",
                                        !.runs = @ + 1]
                   ELSE Gained(prepared, apply_section_gain(prepared, wfIn.names, FALSE, FALSE))
           IN  IF ~preset_known THEN Failed /\ UNCHANGED wfIn
               ELSE Prepared(prepare_mix_spec(wfIn.file))
    /\ UNCHANGED notWfVars

NextGain == RunOnFile

SpecGain == InitGain /\ [][NextGain]_vars

\* the velocities of the notes of the patterns of a project file
Velocities(file) ==
    [i \in 1..Len(file.tracks) |->
        [k \in DOMAIN file.tracks[i].patterns |->
            [j \in 1..Len(file.tracks[i].patterns[k].notes) |->
                file.tracks[i].patterns[k].notes[j].velocity]]]

\* C29: the section_gain step is idempotent across runs: a run of the
\* workflow with section_gain on a project file that an earlier run with
\* section_gain has written leaves every note velocity as it was.
C29_SectionGainIdempotent ==
    [][(wfOut.gains >= 1 /\ wfOut'.gains = wfOut.gains + 1) =>
          Velocities(wfIn'.file) = Velocities(wfIn.file)]_vars

(***************************************************************************)
(* Drum macros (cli/headless.py gen_drum_macros, arrange/drum_macros.py)   *)
(* on track 0 of a 480-ppq project whose patterns are close to the limit   *)
(* of MAX_PATTERNS_PER_TRACK.  As in the pattern commands above, the notes *)
(* of a pattern are their number.                                          *)
(***************************************************************************)
\* the pattern slots the track has left at the start, at most
MaxRoom == 4

\* the name of the k-th pattern a script added before the macros
FillerName(k) == "x" \o ToString(k)

\* _ensure_pattern for each pattern of the pack in turn, followed by the
\* assignment of its notes: a missing pattern is created unless the track
\* is full, an existing one gets the length; the first RuntimeError ends
\* the pack with the patterns before it written
RECURSIVE ensure_patterns(_, _)
ensure_patterns(patterns, items) ==
    IF items = <<>> THEN [patterns |-> patterns, ok |-> TRUE]
    ELSE IF Head(items).name \notin DOMAIN patterns
            /\ Cardinality(DOMAIN patterns) >= MAX_PATTERNS_PER_TRACK
    THEN [patterns |-> patterns, ok |-> FALSE]
    ELSE ensure_patterns(PutPattern(patterns, Head(items).name,
                                    [length |-> Head(items).length, notes |-> Head(items).notes]),
                         Tail(items))

\* generate_drum_macro_pack, for a base pattern whose n notes start in the
\* first three beats of the first bar: the hat roll adds roll notes (8 from
\* beat 4, 6 from the 4-and), the kick turnaround kicks notes (3, or 2
\* without the downbeat); a loop repeats the base, overlays the fill on the
\* last bar and adds a hat per bar and a kick pickup as the seed decides
\* (none of them, or all: the hat of the last bar falls on a roll note)
generate_drum_macro_pack(patterns, base_pattern, ppq, prefix, make_4, make_8, roll, kicks, dense) ==
    IF base_pattern \notin DOMAIN patterns THEN [patterns |-> patterns, ok |-> FALSE]
    ELSE LET tpbar == ppq * 4
             n == patterns[base_pattern].notes
             Item(name, length, notes) == [name |-> name, length |-> length, notes |-> notes]
             v4 == IF make_4
                   THEN <<Item(prefix \o "_v4", 4 * tpbar,
                               4 * n + roll + (IF dense THEN 4 ELSE 0))>>
                   ELSE <<>>
             v8 == IF make_8
                   THEN <<Item(prefix \o "_v8", 8 * tpbar,
                               8 * n + roll + kicks + (IF dense THEN 8 ELSE 0))>>
                   ELSE <<>>
         IN  ensure_patterns(patterns,
                             <<Item(prefix \o "_fill_hatroll", tpbar, n + roll),
                               Item(prefix \o "_fill_kickturn", tpbar, n + kicks)>> \o v4 \o v8)

\* a project with one track that holds the base pattern p (one bar) and
\* the patterns a script added before
InitMacros ==
    /\ \E room \in 0..MaxRoom, n \in 0..MaxAdded :
           project = [open |-> TRUE, ppq |-> 480,
                      tracks |-> <<[patterns |->
                                       [name \in {"p"} \cup {FillerName(k) :
                                                     k \in 1..(MAX_PATTERNS_PER_TRACK - 1 - room)}
                                           |-> [length |-> 1920,
                                                notes |-> IF name = "p" THEN n ELSE 0]],
                                    clips |-> 0]>>]
    /\ lastResult = "none"
    /\ TcIdle
    /\ WfIdle
    /\ NtIdle
    /\ JsIdle
    /\ MixIdle
    /\ FpIdle
    /\ GenIdle
    /\ ScriptIdle
    /\ MigIdle
    /\ RenIdle
    /\ EdIdle

\* new_pattern 0 <name> 1:0, for the next name a script would add
MacrosNewPattern ==
    /\ project.open
    /\ LET patterns == project.tracks[1].patterns
           name == FillerName(Cardinality(DOMAIN patterns))
       IN  IF Cardinality(DOMAIN patterns) >= MAX_PATTERNS_PER_TRACK
           THEN project' = project /\ lastResult' = "error"
           ELSE /\ name \notin DOMAIN patterns
                /\ project' = [project EXCEPT !.tracks[1].patterns =
                                   PutPattern(@, name, Pattern(1920))]
                /\ lastResult' = "ok"
    /\ UNCHANGED notSessionVars

\* gen_drum_macros <track> <base_pattern> [out_prefix=...] [seed=...] [make=...]
GenDrumMacros ==
    /\ project.open
    /\ \E ti \in {0, 1}, base_pat \in {"p", "q"}, out_prefix \in {"", "d"},
          make \in {"both", "4", "8", "none"}, roll \in {6, 8}, kicks \in {2, 3},
          dense \in BOOLEAN :
           LET Generated(pack) ==
                   /\ project' = [project EXCEPT !.tracks[1].patterns = pack.patterns]
                   /\ lastResult' = IF pack.ok THEN "ok" ELSE "error"
           IN  IF make = "none" \/ ti >= Len(project.tracks)
               THEN project' = project /\ lastResult' = "error"
               ELSE Generated(generate_drum_macro_pack(
                                  project.tracks[1].patterns, base_pat, project.ppq,
                                  IF out_prefix = "" THEN base_pat ELSE out_prefix,
                                  make \in {"both", "4"}, make \in {"both", "8"},
                                  roll, kicks, dense))
    /\ UNCHANGED notSessionVars

NextMacros ==
    \/ MacrosNewPattern
    \/ GenDrumMacros

SpecMacros == InitMacros /\ [][NextMacros]_vars

\* C30: a headless command is atomic with respect to the project: when it
\* fails, the project is the one the command started from.
C30_FailedCommandLeavesProject ==
    [][lastResult' = "error" => project' = project]_vars

====
